---- MODULE Spec2Model ----
(***************************************************************************)
(* The text-wall animation engine of Automa, rain variant (Matrix Trails). *)
(* Source: src/src/components/automa/renderers/matrix-trails.tsx.  The     *)
(* file holds the renderer twice: the direct-draw version (lines 1-598)    *)
(* and the version with the cached wall, the dirty set and the stripe      *)
(* scheduler (lines 600-1352).  The simulation code of the two is the      *)
(* same; the model follows the second, which is a superset of the first.   *)
(*                                                                         *)
(* Number representation (JavaScript numbers are floating point):          *)
(*   trail values      integers in units of 10^-6   (1.0 = TrailOne)       *)
(*   decay factors     integers in units of 10^-3   (0.995 = 995)          *)
(*   drop position     integers in units of 10^-2 row (9.7 = 970)          *)
(*   Math.random()     integers u in 0..99 standing for u/100              *)
(*   time              integers in units of 1/120 ms (1000 ms = Second)    *)
(* A Float32Array store is modelled by rounding to the unit.               *)
(*                                                                         *)
(* The sweep variant (sweep-highlight.tsx) shares the viewer's props and    *)
(* the clock.  Its gradient and sweep arithmetic is modelled in exact       *)
(* rationals (records [n, d]) in place of double-precision numbers.         *)
(***************************************************************************)
EXTENDS Integers, Sequences, FiniteSets, TLC

VARIABLES
    values,     \* the parameter bag the host passes to the component
    width,      \* viewport width in px  (component prop)
    height,     \* viewport height in px (component prop)
    grid,       \* gridRef.current
    wall,       \* the cached wall canvas: the glyph painted in each cell, 0 = blank
    lastRef,    \* lastRef.current: timestamp of the previous frame, 0 = none yet
    accRef,     \* accRef.current: the step budget
    now,        \* the timestamp handed to the frame callback that is running
    steps,      \* the local `steps` of the frame callback
    pc,         \* position of the frame callback: "idle", "stepping";
                \* "crashed" after an effect threw
    op,         \* observation: the operation that produced this state
    obs,        \* observation: what the last step / render touched
    stripes,    \* observation: the stripe repaints of the current stripe cycle
    sweepValues,  \* the parameter bag of the sweep variant (SweepHighlightAutoma)
    sweepRefs,    \* its refs other than the grid: waveOffsetRef, lastBgTsRef,
                  \* bgDirtyRef, and what bgCanvasRef holds
    sweepGrid,    \* its gridRef.current: cols, rows, cell, colNorm
    sweepFrame,   \* observation: what its last draw(now) computed
    gradientEval, \* observation: the last call of evalGradient(u, lockEnds)
    isPaused,     \* the isPaused prop of the mounted component
    animationRef, \* TRUE while a frame callback is requested and not cancelled
    held,         \* observation: the grids as the last pause found them
    browser,      \* the page: document.hidden and the number of frame
                  \* callbacks requested and neither run nor cancelled
    viewer,       \* the iframe viewer (AutomaViewer): its state and the
                  \* messages it has posted to the automa
    shimmer       \* the shimmer variant: its parameters, its grid and what
                  \* its last draw(ts) did

sweepVars == <<sweepValues, sweepRefs, sweepGrid, sweepFrame, gradientEval>>

rainVars == <<values, grid, wall, lastRef, accRef, steps, pc, obs, stripes>>

loopVars == <<isPaused, animationRef, held, browser>>

vars == <<values, width, height, grid, wall, lastRef, accRef, now, steps, pc, op, obs,
          stripes, sweepVars, loopVars, viewer, shimmer>>

-----------------------------------------------------------------------------
(* Bounds of the model *)

\* dropPos is a Float32Array: once a position is so large that the speed is
\* below half an ulp, position + speed rounds back to the position.  The model
\* lets that absorption happen MaxFall rows below the reset line rows + 6.
MaxFall == 2

\* The clock of the frame loop stops after MaxFrames times 50 ms (LastTime).
MaxFrames == 3

-----------------------------------------------------------------------------
(* Units *)

TrailOne == 1000 * 1000
PosUnit == 10 * 10
Second == 120 * 1000
Undef == 0 - 999

\* Math.random() is an input: an operation reads the successive values of a
\* periodic stream (a sequence of samples, repeated).

\* The k-th value (k = 0, 1, ...) Math.random() returns in an operation.
Rand(s, k) == s[(k % Len(s)) + 1]

Min(a, b) == IF a < b THEN a ELSE b
Max(a, b) == IF a > b THEN a ELSE b

\* Math.ceil(a / b) and Math.floor(a / b) for b > 0
CeilDiv(a, b) == -((-a) \div b)
FloorDiv(a, b) == a \div b

\* x ?? d
OrDefault(x, d) == IF x = Undef THEN d ELSE x

\* x || d for numbers
OrElse(x, d) == IF x = Undef \/ x = 0 THEN d ELSE x

\* Sequencing: the value of e, computed once, handed to the statements that
\* follow it.
Then(e, F(_)) == CHOOSE out \in {F(x) : x \in {e}} : TRUE

clamp(n, a, b) == Min(b, Max(a, n))

-----------------------------------------------------------------------------
(* Glyph generation helpers *)

\* randomWallCodepoint(script), reading the stream s from call number k.
\* The result is <<codepoint, next call number>>.
randomWallCodepoint(script, s, k) ==
    CASE script = "alphabet" -> <<33 + (Rand(s, k) * 94) \div 100, k + 1>>
      [] script = "chinese"  -> <<19968 + (Rand(s, k) * 2000) \div 100, k + 1>>
      [] script = "japanese" ->
            IF Rand(s, k) < 60
            THEN <<12353 + (Rand(s, k + 1) * 86) \div 100, k + 2>>
            ELSE <<12449 + (Rand(s, k + 1) * 86) \div 100, k + 2>>
      [] script = "korean"   -> <<44032 + (Rand(s, k) * 1115) \div 100, k + 1>>
      [] OTHER               -> <<63, k>>

\* A string is a sequence of codepoints; 32 is the space.
RECURSIVE TrimLeft(_)
TrimLeft(str) ==
    IF str # <<>> /\ Head(str) = 32 THEN TrimLeft(Tail(str)) ELSE str

RECURSIVE TrimRight(_)
TrimRight(str) ==
    IF str # <<>> /\ str[Len(str)] = 32
    THEN TrimRight(SubSeq(str, 1, Len(str) - 1)) ELSE str

Trim(str) == TrimRight(TrimLeft(str))

FallbackText == <<20320, 22909, 19990, 30028>>

\* The fixedText parameter as the host supplies it: an array of strings (the
\* text-array control's value), a single string, or nothing
TextArray(texts) == [kind |-> "array", texts |-> texts]
LegacyText(str) == [kind |-> "string", texts |-> <<str>>]
NoText == [kind |-> "missing", texts |-> <<>>]

\* buildFixedPool(str): the codepoints of the trimmed text, or of the fallback
buildFixedPool(str) ==
    LET cleaned == IF str # <<>> /\ Trim(str) # <<>> THEN Trim(str) ELSE FallbackText
    IN  IF Len(cleaned) = 0 THEN <<19968>>
        ELSE [i \in 1..Len(cleaned) |-> IF cleaned[i] = 0 THEN 63 ELSE cleaned[i]]

-----------------------------------------------------------------------------
(* The highlight mask *)

\* Alpha threshold of the mask: const TH = 64
TH == 64

\* The canvas text rasterizer is outside the program: the auto-fit, fillText
\* and getImageData hand back one alpha value per mask pixel, a function of
\* the text and of the mask size.  The model knows a text by a number and
\* gives each text an image that puts pixels on both sides of the threshold:
\* text 1 covers everything, text 2 every other cell (just above and just at
\* the threshold), text 3 the first row, any other text nothing.
AlphaPattern(k, i, cols) ==
    CASE k = 1 -> 255
      [] k = 2 -> IF i % 2 = 0 THEN 65 ELSE 64
      [] k = 3 -> IF i < cols THEN 200 ELSE 10
      [] OTHER -> 0

\* getImageData after drawing `word` into a cols x rows mask canvas
Canvas(word, cols, rows) ==
    [i \in 0..(cols * rows - 1) |-> AlphaPattern(word, i, cols)]

\* A scan that files cell i under column i div rows
ColumnCellsByColumn(c, cols, rows) == [k \in 1..rows |-> c * rows + (k - 1)]

\* The cells of column c in the order the scan `for (i = 0; i < total; i++)`
\* meets them.
ColumnCells(c, cols, rows) == [k \in 1..rows |-> (k - 1) * cols + c]

\* A rasterization that pushes onto the lists it finds
rasterizeOntoOldLists(g, word, cols, rows) ==
    LET data == Canvas(word, cols, rows)
        mask == [i \in 0..(cols * rows - 1) |-> IF data[i] > TH THEN 1 ELSE 0]
    IN  [g EXCEPT
           !.hitMask = mask,
           !.hiByCol = [c \in 0..(cols - 1) |->
                          (IF c \in DOMAIN g.hiByCol THEN g.hiByCol[c] ELSE <<>>)
                          \o SelectSeq(ColumnCells(c, cols, rows),
                                       LAMBDA i : mask[i] = 1)]]

\* rasterizeHitMask(word, cols, rows).  hitMask is reallocated when its length differs from cols * rows and
\* every entry is rewritten; hiByCol is rebuilt from the same scan.
rasterizeHitMask(g, word, cols, rows) ==
    IF cols = 0 \/ rows = 0 THEN g
    ELSE LET total == cols * rows
             data == Canvas(word, cols, rows)
             mask == [i \in 0..(total - 1) |-> IF data[i] > TH THEN 1 ELSE 0]
         IN  [g EXCEPT
                !.hitMask = mask,
                !.hiByCol = [c \in 0..(cols - 1) |->
                               SelectSeq(ColumnCells(c, cols, rows),
                                         LAMBDA i : mask[i] = 1)]]

-----------------------------------------------------------------------------
(* Grid build *)

\* Number of Math.random() calls randomWallCodepoint(script) makes
GlyphCalls(script) ==
    IF script \in {"alphabet", "chinese", "korean"} THEN 1
    ELSE IF script = "japanese" THEN 2 ELSE 0

\* values.maskText || "\u4f60\u597d": text 0 is the empty string, text 3 the
\* default text
MaskText(vals) == IF vals.maskText = 0 THEN 3 ELSE vals.maskText

\* values.fillMode || "random",  values.script || "chinese"
FillMode(vals) == IF vals.fillMode = "" THEN "random" ELSE vals.fillMode
Script(vals) == IF vals.script = "" THEN "chinese" ELSE vals.script

\* grid.cell, grid.cols and grid.rows as rebuildAll computes them
GridCell(vals) == Max(8, OrElse(vals.cellSize, 16))

\* A column count that rounds down
GridColsRoundedDown(vals, w) == Max(1, FloorDiv(w, GridCell(vals)))

GridCols(vals, w) == Max(1, CeilDiv(w, GridCell(vals)))
GridRows(vals, h) == Max(1, CeilDiv(h, GridCell(vals)))

\* values.fixedText || "你好世界": a missing value and the empty string are
\* falsy, every array is truthy
RainFixedText(vals) ==
    IF vals.fixedText.kind = "missing"
       \/ (vals.fixedText.kind = "string" /\ vals.fixedText.texts[1] = <<>>)
    THEN LegacyText(FallbackText)
    ELSE vals.fixedText

\* buildFixedPool calls str.trim(); an array has no trim method, so the call
\* raises a TypeError that rebuildAll does not catch
BuildThrows(vals) == RainFixedText(vals).kind = "array"

\* rebuildAll(): s is the Math.random() stream.  The calls to Math.random() are numbered in program order:
\* two per column for the drops, then per cell the glyph (random fill only),
\* the twinkle phase and the twinkle speed.
rebuildAll(g, vals, w, h, s) ==
    LET cell  == GridCell(vals)
        cols  == GridCols(vals, w)
        rows  == GridRows(vals, h)
        total == cols * rows
        pool  == IF BuildThrows(vals) THEN g.fixedPool
                 ELSE buildFixedPool(RainFixedText(vals).texts[1])
        mode  == FillMode(vals)
        script == Script(vals)
        k0    == 2 * cols
        per   == IF mode = "fixed" THEN 2 ELSE GlyphCalls(script) + 2
        usep  == IF Len(pool) > 0 THEN pool ELSE <<63>>
        chars == [i \in 0..(total - 1) |->
                    IF mode = "fixed" THEN usep[(i % Len(usep)) + 1]
                    ELSE randomWallCodepoint(script, s, k0 + per * i)[1]]
        g1 == [cols |-> cols, rows |-> rows, cell |-> cell,
               wallChars |-> chars,
               baseChars |-> chars,
               twPhase |-> [i \in 0..(total - 1) |-> Rand(s, k0 + per * i + per - 2)],
               twSpeed |-> [i \in 0..(total - 1) |->
                              15 + (Rand(s, k0 + per * i + per - 1) * 35) \div 100],
               hitMask |-> g.hitMask,
               hiByCol |-> g.hiByCol,
               trail |-> [i \in 0..(total - 1) |-> 0],
               activeFlag |-> [i \in 0..(total - 1) |-> 0],
               active |-> <<>>,
               dropPos |-> [c \in 0..(cols - 1) |-> Rand(s, 2 * c) * rows],
               dropSpd |-> [c \in 0..(cols - 1) |->
                              60 + (Rand(s, 2 * c + 1) * 140) \div 100],
               fixedPool |-> pool,
               dirtyFlag |-> [i \in 0..(total - 1) |-> 0],
               dirtyCells |-> <<>>,
               twRowCursor |-> g.twRowCursor,
               nextTwinkleAt |-> g.nextTwinkleAt,
               forceFullWallPaint |-> g.forceFullWallPaint]
        g2 == rasterizeHitMask(g1, MaskText(vals), cols, rows)
        \* what has been assigned when buildFixedPool throws: the geometry,
        \* zero-filled arrays and the drops
        thrown == [g EXCEPT !.cols = cols, !.rows = rows, !.cell = cell,
                            !.wallChars = [i \in 0..(total - 1) |-> 0],
                            !.baseChars = [i \in 0..(total - 1) |-> 0],
                            !.twPhase = [i \in 0..(total - 1) |-> 0],
                            !.twSpeed = [i \in 0..(total - 1) |-> 0],
                            !.trail = g1.trail, !.activeFlag = g1.activeFlag,
                            !.active = <<>>,
                            !.dropPos = g1.dropPos, !.dropSpd = g1.dropSpd]
    IN  IF BuildThrows(vals) THEN thrown
        ELSE [g2 EXCEPT !.twRowCursor = 0, !.nextTwinkleAt = 0,
                        !.forceFullWallPaint = TRUE]

\* rebuildAll assigns wallCanvas.width, which clears the cached wall.
BlankWall(g) == [i \in 0..(g.cols * g.rows - 1) |-> 0]

\* The value gridRef is created with (useRef initial value).
InitialGrid ==
    [cols |-> 1, rows |-> 1, cell |-> 16,
     wallChars |-> <<>>, baseChars |-> <<>>, twPhase |-> <<>>, twSpeed |-> <<>>,
     hitMask |-> <<>>, hiByCol |-> <<>>, trail |-> <<>>, activeFlag |-> <<>>,
     active |-> <<>>, dropPos |-> <<>>, dropSpd |-> <<>>, fixedPool |-> <<>>,
     dirtyFlag |-> <<>>, dirtyCells |-> <<>>,
     twRowCursor |-> 0, nextTwinkleAt |-> 0, forceFullWallPaint |-> TRUE]

-----------------------------------------------------------------------------
(* Trail simulation *)

\* Removal threshold of the decay loop: v < 0.006, in trail units
Threshold == 6000

\* A product trail * decay is in units of 10^-9; storing it in the Float32Array
\* trail rounds it to the trail unit.  Strengths are given in trail units, so
\* storing one leaves it as it is.
StoreTrail(prod) == (prod + 500) \div 1000

\* A decay factor taken from the host as it comes
decayInAsGiven(vals) == OrDefault(vals.insideDecay, 900)

\* An injection strength taken from the host as it comes
outStrengthAsGiven(vals) == OrDefault(vals.outsideStrength, 180000)

\* The clamped parameters stepSimulation reads
outStrength(vals) == clamp(OrDefault(vals.outsideStrength, 180000), 0, TrailOne)
inStrength(vals) == clamp(OrDefault(vals.insideStrength, TrailOne), 0, TrailOne)
decayOut(vals) == clamp(OrDefault(vals.outsideDecay, 720), 500, 980)
decayIn(vals) == clamp(OrDefault(vals.insideDecay, 900), 500, 995)

\* A markDirty that records nothing
markNothing(g, idx) == g

\* markDirty(idx)
markDirty(g, idx) ==
    IF g.dirtyFlag[idx] = 0
    THEN [g EXCEPT !.dirtyFlag[idx] = 1, !.dirtyCells = Append(@, idx)]
    ELSE g

\* An addActive that does not look at the flag
addActiveAgain(g, idx) == [g EXCEPT !.activeFlag[idx] = 1, !.active = Append(@, idx)]

\* addActive(idx)
addActive(g, idx) ==
    IF g.activeFlag[idx] # 0 THEN g
    ELSE [g EXCEPT !.activeFlag[idx] = 1, !.active = Append(@, idx)]

\* A removal that leaves the struck codepoint in place in every fill mode
RemoveKeepingCodepoint(g, i, vals) ==
    LET idx == g.active[i + 1]
        g1 == [g EXCEPT !.trail[idx] = 0, !.activeFlag[idx] = 0]
        n  == Len(g1.active)
    IN  [g1 EXCEPT !.active = SubSeq([g1.active EXCEPT ![i + 1] = g1.active[n]], 1, n - 1)]

\* A removal that pops the last entry without moving it to position i
RemovePopping(g, i, vals) ==
    LET idx == g.active[i + 1]
        g1 == [g EXCEPT !.trail[idx] = 0, !.activeFlag[idx] = 0]
        g2 == IF FillMode(vals) = "fixed" /\ g1.wallChars[idx] # g1.baseChars[idx]
              THEN markDirty([g1 EXCEPT !.wallChars[idx] = g1.baseChars[idx]], idx)
              ELSE g1
    IN  [g2 EXCEPT !.active = SubSeq(g2.active, 1, Len(g2.active) - 1)]

\* One removal of the decay loop: trail and flag to 0, the baseline codepoint
\* restored in fixed fill mode, the entry overwritten by the last one and the
\* list popped.  i is the 0-based position in grid.active.
RemoveAt(g, i, vals) ==
    LET idx == g.active[i + 1]
        g1 == [g EXCEPT !.trail[idx] = 0, !.activeFlag[idx] = 0]
        g2 == IF FillMode(vals) = "fixed" /\ g1.wallChars[idx] # g1.baseChars[idx]
              THEN markDirty([g1 EXCEPT !.wallChars[idx] = g1.baseChars[idx]], idx)
              ELSE g1
        n  == Len(g2.active)
    IN  [g2 EXCEPT !.active = SubSeq([g2.active EXCEPT ![i + 1] = g2.active[n]], 1, n - 1)]

\* The decay factor the loop applies to cell idx
DecayFor(g, idx, vals) == IF g.hitMask[idx] # 0 THEN decayIn(vals) ELSE decayOut(vals)

\* for (let i = 0; i < grid.active.length; ) { ... }
RECURSIVE DecayLoop(_, _, _)
DecayLoop(g, i, vals) ==
    IF i >= Len(g.active) THEN g
    ELSE LET idx == g.active[i + 1]
             v   == g.trail[idx] * DecayFor(g, idx, vals)
         IN  IF v < Threshold * 1000
             THEN Then(RemoveAt(g, i, vals), LAMBDA h : DecayLoop(h, i, vals))
             ELSE Then([g EXCEPT !.trail[idx] = StoreTrail(v)],
                       LAMBDA h : DecayLoop(h, i + 1, vals))

\* replacementCodepoint(), reading the stream from call k: <<codepoint, next k>>
replacementCodepoint(g, vals, s, k) ==
    IF FillMode(vals) = "random" THEN randomWallCodepoint(Script(vals), s, k)
    ELSE IF Len(g.fixedPool) > 0
         THEN <<g.fixedPool[(Rand(s, k) * Len(g.fixedPool)) \div 100 + 1], k + 1>>
         ELSE <<63, k>>

\* The injection strength for cell idx
InjFor(g, idx, vals) == IF g.hitMask[idx] # 0 THEN inStrength(vals) ELSE outStrength(vals)

\* A strike that sets the trail to the injection strength whatever it was
StrikeOverwriting(st, r, c, vals, s) ==
    LET g   == st.g
        idx == r * g.cols + c
        cpk == replacementCodepoint(g, vals, s, st.k)
        g1  == IF g.wallChars[idx] # cpk[1]
               THEN markDirty([g EXCEPT !.wallChars[idx] = cpk[1]], idx)
               ELSE g
        g2  == [g1 EXCEPT !.trail[idx] = InjFor(g1, idx, vals)]
    IN  [g |-> addActive(g2, idx), k |-> cpk[2],
         struck |-> st.struck \cup {idx},
         pre |-> st.pre @@ (idx :> g.trail[idx])]

\* The body of `for (let r = r0; r <= r1; r++)` for one row inside the grid.
\* st = [g, k, struck, pre]: the grid, the Math.random() call number, and the
\* observation of which cells were struck and what their trail was before.
Strike(st, r, c, vals, s) ==
    LET g   == st.g
        idx == r * g.cols + c
        cpk == replacementCodepoint(g, vals, s, st.k)
        g1  == IF g.wallChars[idx] # cpk[1]
               THEN markDirty([g EXCEPT !.wallChars[idx] = cpk[1]], idx)
               ELSE g
        inj == InjFor(g1, idx, vals)
        g2  == IF inj > g1.trail[idx]
               THEN [g1 EXCEPT !.trail[idx] = StoreTrail(inj * 1000)]
               ELSE g1
    IN  [g |-> addActive(g2, idx), k |-> cpk[2],
         struck |-> st.struck \cup {idx},
         pre |-> st.pre @@ (idx :> g.trail[idx])]

\* A drop that strikes only the row it arrives in
StrikeFinalRow(st, r, r1, c, vals, s) ==
    IF r1 < 0 \/ r1 >= st.g.rows THEN st ELSE Strike(st, r1, c, vals, s)

\* for (let r = r0; r <= r1; r++) { if (r < 0 || r >= grid.rows) continue; ... }
RECURSIVE StrikeRows(_, _, _, _, _, _)
StrikeRows(st, r, r1, c, vals, s) ==
    IF r > r1 THEN st
    ELSE IF r < 0 \/ r >= st.g.rows THEN StrikeRows(st, r + 1, r1, c, vals, s)
    ELSE Then(Strike(st, r, c, vals, s),
              LAMBDA t : StrikeRows(t, r + 1, r1, c, vals, s))

\* grid.dropPos[c] = next: the Float32Array store.  Far below the grid the
\* addition is absorbed (see MaxFall).
StorePos(g, prev, next) ==
    IF next > (g.rows + 6 + MaxFall) * PosUnit THEN prev ELSE next

\* A reset that does not wait for the drop to leave the wall's margin
ResetDropAtOnce(st, c, s) ==
    LET g == st.g
    IN  IF g.dropPos[c] > g.rows * PosUnit /\ Rand(s, st.k) > 92
        THEN [st EXCEPT !.g.dropPos[c] = -(Rand(s, st.k + 1) * 8),
                        !.g.dropSpd[c] = 60 + (Rand(s, st.k + 2) * 140) \div 100,
                        !.k = st.k + 3]
        ELSE [st EXCEPT !.k = st.k + 1]

\* A reset that puts the drop back into the rows it has left
ResetDropInside(st, c, s) ==
    LET g == st.g
    IN  IF g.dropPos[c] > (g.rows + 6) * PosUnit
        THEN IF Rand(s, st.k) > 92
             THEN [st EXCEPT !.g.dropPos[c] = Rand(s, st.k + 1) * 8,
                             !.g.dropSpd[c] = 60 + (Rand(s, st.k + 2) * 140) \div 100,
                             !.k = st.k + 3]
             ELSE [st EXCEPT !.k = st.k + 1]
        ELSE st

\* The reset at the end of the column's turn
ResetDrop(st, c, s) ==
    LET g == st.g
    IN  IF g.dropPos[c] > (g.rows + 6) * PosUnit
        THEN IF Rand(s, st.k) > 92
             THEN [st EXCEPT !.g.dropPos[c] = -(Rand(s, st.k + 1) * 8),
                             !.g.dropSpd[c] = 60 + (Rand(s, st.k + 2) * 140) \div 100,
                             !.k = st.k + 3]
             ELSE [st EXCEPT !.k = st.k + 1]
        ELSE st

\* One turn of `for (let c = 0; c < grid.cols; c++)`
DropColumn(st, c, vals, s) ==
    LET prev == st.g.dropPos[c]
        next == prev + st.g.dropSpd[c]
        r0   == FloorDiv(prev, PosUnit)
        r1   == FloorDiv(next, PosUnit)
    IN  Then(StrikeRows(st, r0, r1, c, vals, s),
             LAMBDA st1 :
                Then([st1 EXCEPT !.g.dropPos[c] = StorePos(st1.g, prev, next)],
                     LAMBDA st2 : ResetDrop(st2, c, s)))

RECURSIVE DropLoop(_, _, _, _)
DropLoop(st, c, vals, s) ==
    IF c >= st.g.cols THEN st
    ELSE Then(DropColumn(st, c, vals, s), LAMBDA t : DropLoop(t, c + 1, vals, s))

\* stepSimulation(): the decay loop, then the drops.  The result carries the
\* new grid and the observation of the step: the cells struck, their trail
\* just before the strike, and for every cell that was in the active list when
\* the step began its state at the end of the decay loop.
stepSimulation(g, vals, s) ==
    LET was == {g.active[j] : j \in 1..Len(g.active)}
        Drops(gd) == DropLoop([g |-> gd, k |-> 0, struck |-> {}, pre |-> <<>>], 0, vals, s)
        Seen(gd, st) ==
            [g |-> st.g, struck |-> st.struck, pre |-> st.pre,
             mid |-> [i \in was |->
                        [trail |-> gd.trail[i], flag |-> gd.activeFlag[i],
                         listed |-> \E j \in 1..Len(gd.active) : gd.active[j] = i,
                         char |-> gd.wallChars[i]]]]
    IN  Then(DecayLoop(g, 0, vals),
             LAMBDA gd : Then(Drops(gd), LAMBDA st : Seen(gd, st)))

-----------------------------------------------------------------------------
(* The cached wall: dirty cells, stripes, full repaint *)

\* const cellsBudget = 2000
cellsBudget == 2000

\* A paint state pt = [g, wall, rows, cells]: the grid, the cached wall, and the
\* observation of the rows painted by paintWallRows and of the cells painted
\* by paintCellOnWall, in program order.

\* paintCellOnWall(idx, nowMs): clears the cell and draws its glyph
paintCellOnWall(pt, idx) ==
    [pt EXCEPT !.wall[idx] = pt.g.wallChars[idx], !.cells = Append(@, idx)]

\* flushDirtyCells(nowMs)
RECURSIVE FlushLoop(_, _)
FlushLoop(pt, i) ==
    IF i >= Len(pt.g.dirtyCells) THEN pt
    ELSE LET idx == pt.g.dirtyCells[i + 1]
         IN  FlushLoop(paintCellOnWall([pt EXCEPT !.g.dirtyFlag[idx] = 0], idx), i + 1)

\* A flush that paints the dirty cells and keeps the list
flushKeepingList(pt) == FlushLoop(pt, 0)

flushDirtyCells(pt) ==
    IF Len(pt.g.dirtyCells) = 0 THEN pt
    ELSE [FlushLoop(pt, 0) EXCEPT !.g.dirtyCells = <<>>]

\* A paintWallRows that stops one row early
paintWallRowsShort(pt, rStart, rCount) ==
    LET g    == pt.g
        rEnd == Min(g.rows, rStart + rCount - 1)
    IN  [pt EXCEPT
           !.wall = [i \in DOMAIN pt.wall |->
                       IF rStart * g.cols <= i /\ i < rEnd * g.cols
                       THEN g.wallChars[i] ELSE pt.wall[i]],
           !.rows = @ \o [k \in 1..Max(0, rEnd - rStart) |-> rStart + k - 1]]

\* paintWallRows(rStart, rCount, nowMs): rows rStart .. rEnd - 1 are cleared
\* and every cell of them is drawn
paintWallRows(pt, rStart, rCount) ==
    LET g    == pt.g
        rEnd == Min(g.rows, rStart + rCount)
    IN  [pt EXCEPT
           !.wall = [i \in DOMAIN pt.wall |->
                       IF rStart * g.cols <= i /\ i < rEnd * g.cols
                       THEN g.wallChars[i] ELSE pt.wall[i]],
           !.rows = @ \o [k \in 1..Max(0, rEnd - rStart) |-> rStart + k - 1]]

\* paintFullWall(nowMs)
paintFullWall(pt) ==
    paintWallRows([pt EXCEPT !.wall = [i \in DOMAIN pt.wall |-> 0]], 0, pt.g.rows)

\* clamp(values.twinkleSpeed ?? 12, 0, 30)
twFps(vals) == clamp(OrDefault(vals.twinkleSpeed, 12), 0, 30)

\* Math.max(1, Math.floor(cellsBudget / Math.max(1, grid.cols)))
stripeRows(g) == Max(1, FloorDiv(cellsBudget, Max(1, g.cols)))

\* maybeTwinkleStripe(nowMs)
maybeTwinkleStripe(pt, vals, nowMs) ==
    IF twFps(vals) <= 0 THEN pt
    ELSE IF nowMs < pt.g.nextTwinkleAt THEN pt
    ELSE LET p1 == [pt EXCEPT !.g.nextTwinkleAt = nowMs + Second \div twFps(vals)]
             p2 == paintWallRows(p1, p1.g.twRowCursor, stripeRows(p1.g))
             cur == p2.g.twRowCursor + stripeRows(p2.g)
         IN  [p2 EXCEPT !.g.twRowCursor = IF cur >= p2.g.rows THEN 0 ELSE cur]

\* A render that leaves the force flag set
renderKeepingFlag(g, w, vals, nowMs) ==
    LET pt == [g |-> g, wall |-> w, rows |-> <<>>, cells |-> <<>>]
    IN  flushDirtyCells(IF g.forceFullWallPaint THEN paintFullWall(pt)
                        ELSE maybeTwinkleStripe(pt, vals, nowMs))

\* render(nowMs), the part that changes state: `// Twinkle + dirty`.  The rest
\* of render draws the frame from the grid and the cached wall and writes
\* neither.
render(g, w, vals, nowMs) ==
    LET pt == [g |-> g, wall |-> w, rows |-> <<>>, cells |-> <<>>]
        p1 == IF pt.g.forceFullWallPaint
              THEN paintFullWall([pt EXCEPT !.g.forceFullWallPaint = FALSE])
              ELSE maybeTwinkleStripe(pt, vals, nowMs)
    IN  flushDirtyCells(p1)

-----------------------------------------------------------------------------
(* Inputs *)

\* The parameter bag a run starts with.  Strings are sequences of codepoints
\* (65 = "A", 66 = "B", 32 = " ").
DefaultValues ==
    [cellSize |-> 16, fillMode |-> "random", script |-> "alphabet",
     fixedText |-> LegacyText(<<65, 66>>), maskText |-> 2,
     outsideStrength |-> 180000, insideStrength |-> TrailOne,
     outsideDecay |-> 500, insideDecay |-> 500,
     rainSpeed |-> 120, twinkleSpeed |-> 30, wallBrightness |-> 6]

\* What the host may set each parameter to: a small wall, fast decay.
\* geometry: <<width, height, cellSize>>; fill: <<fillMode, script, fixedText>>;
\* sim: <<outsideStrength, insideStrength, outsideDecay, insideDecay>>;
\* appearance: <<twinkleSpeed, wallBrightness>>; gaps: time between frames.
SmallDom ==
    [geometry |-> {<<16, 32, 16>>, <<32, 32, 0>>},
     fill |-> {<<"random", "alphabet", LegacyText(<<65, 66>>)>>,
               <<"fixed", "alphabet", LegacyText(<<65, 66>>)>>,
               <<"", "", LegacyText(<<32>>)>>},
     maskText |-> {2, 4},
     streams |-> {<<0>>, <<99>>},
     sim |-> {<<180000, TrailOne, 500, 500>>,
              <<0, 180000, 400, 300>>},
     rainSpeed |-> {120, 60, Undef},
     appearance |-> {<<30, 6>>, <<0, 6>>, <<12, 25>>},
     gaps |-> {2000, 6000, 18000}]

NoObs ==
    [struck |-> {}, pre |-> <<>>, mid |-> <<>>, rows |-> <<>>, cells |-> <<>>, left |-> 0,
     fit |-> <<>>]

\* No stripe painted yet in this cycle: n counts the stripe repaints since the
\* cursor last stood at 0, painted collects the rows they painted.
NoStripes == [n |-> 0, painted |-> {}]

-----------------------------------------------------------------------------
(* The sweep variant: numbers *)

\* JavaScript numbers of the sweep arithmetic as exact rationals n/d, d > 0,
\* in lowest terms.  d = 0 marks a value that is no number: a parameter the
\* host did not supply, or a JSON field that Number() turns into NaN.
RECURSIVE GCD(_, _)
GCD(a, b) == IF b = 0 THEN a ELSE GCD(b, a % b)

Abs(x) == IF x < 0 THEN 0 - x ELSE x

Rat(n, d) ==
    LET s == IF d < 0 THEN 0 - 1 ELSE 1
        g == GCD(Abs(n), Abs(d))
    IN  [n |-> (s * n) \div g, d |-> (s * d) \div g]

NoNumber == [n |-> 0, d |-> 0]
RInt(k) == [n |-> k, d |-> 1]
RAdd(x, y) == Rat(x.n * y.d + y.n * x.d, x.d * y.d)
RSub(x, y) == Rat(x.n * y.d - y.n * x.d, x.d * y.d)
RMul(x, y) == Rat(x.n * y.n, x.d * y.d)
RDiv(x, y) == Rat(x.n * y.d, x.d * y.n)
RLe(x, y) == x.n * y.d <= y.n * x.d
RLt(x, y) == x.n * y.d < y.n * x.d
RMax(x, y) == IF RLe(x, y) THEN y ELSE x
RMin(x, y) == IF RLe(x, y) THEN x ELSE y
RFloor(x) == x.n \div x.d
RCeil(x) == 0 - ((0 - x.n) \div x.d)

\* x % 1: the remainder keeps the sign of x
RMod1(x) ==
    IF x.n >= 0 THEN Rat(x.n % x.d, x.d) ELSE Rat(0 - ((0 - x.n) % x.d), x.d)

\* clamp(n, a, b) of sweep-highlight.tsx
RClamp(n, a, b) == RMin(b, RMax(a, n))

\* x ?? d  and  Number(x) || d
ROrDefault(x, d) == IF x.d = 0 THEN d ELSE x
ROrElse(x, d) == IF x.d = 0 \/ x.n = 0 THEN d ELSE x

\* The guard 1e-6 of the two divisions
Epsilon == Rat(1, 1000 * 1000)

-----------------------------------------------------------------------------
(* The sweep variant: gradient *)

\* The stops the component falls back to
DefaultStops ==
    <<[p |-> Rat(0, 1), v |-> Rat(0, 1)], [p |-> Rat(15, 100), v |-> Rat(1, 10)],
      [p |-> Rat(1, 2), v |-> Rat(8, 10)], [p |-> Rat(85, 100), v |-> Rat(1, 10)],
      [p |-> Rat(1, 1), v |-> Rat(0, 1)]>>

\* A memo that gives up on an array with a field that is no number
gradientStopsStrict(vals) ==
    IF vals.gradientStops.kind = "array"
       /\ \A k \in 1..Len(vals.gradientStops.stops) :
              /\ vals.gradientStops.stops[k].p # NoNumber
              /\ vals.gradientStops.stops[k].v # NoNumber
    THEN [k \in 1..Len(vals.gradientStops.stops) |->
            [p |-> RClamp(vals.gradientStops.stops[k].p, RInt(0), RInt(1)),
             v |-> RClamp(vals.gradientStops.stops[k].v, RInt(0), RInt(1))]]
    ELSE DefaultStops

\* The gradientStops memo.  The parameter is [kind, stops]: kind "array" is a
\* string that parses to a JSON array of objects, whose p and v fields are
\* given as numbers (or NoNumber); any other kind is a missing value, a
\* string that does not parse, or JSON that is no array.
gradientStops(vals) ==
    IF vals.gradientStops.kind = "array"
    THEN [k \in 1..Len(vals.gradientStops.stops) |->
            [p |-> RClamp(ROrElse(vals.gradientStops.stops[k].p, RInt(0)),
                          RInt(0), RInt(1)),
             v |-> RClamp(ROrElse(vals.gradientStops.stops[k].v, RInt(0)),
                          RInt(0), RInt(1))]]
    ELSE DefaultStops

\* A sort that moves a stop before the stops of equal position
InsertStopFirst(sorted, x) ==
    LET k == Cardinality({j \in 1..Len(sorted) : RLt(sorted[j].p, x.p)})
    IN  SubSeq(sorted, 1, k) \o <<x>> \o SubSeq(sorted, k + 1, Len(sorted))

\* [...gradientStops].sort((a, b) => a.p - b.p): Array.prototype.sort is
\* stable, stops of equal position keep the order they were supplied in.
InsertStop(sorted, x) ==
    LET k == Cardinality({j \in 1..Len(sorted) : RLe(sorted[j].p, x.p)})
    IN  SubSeq(sorted, 1, k) \o <<x>> \o SubSeq(sorted, k + 1, Len(sorted))

RECURSIVE SortStops(_)
SortStops(stops) ==
    IF stops = <<>> THEN <<>>
    ELSE InsertStop(SortStops(SubSeq(stops, 1, Len(stops) - 1)), stops[Len(stops)])

\* An interpolation that holds the left stop's value
InterpolateHeld(a, b, u) == a.v

\* a.v + (b.v - a.v) * t  with  t = (u - a.p) / Math.max(1e-6, b.p - a.p)
Interpolate(a, b, u) ==
    LET t == RDiv(RSub(u, a.p), RMax(Epsilon, RSub(b.p, a.p)))
    IN  RAdd(a.v, RMul(RSub(b.v, a.v), t))

\* The loop over consecutive stops: the first pair that brackets u decides.
RECURSIVE Bracket(_, _, _)
Bracket(sorted, i, u) ==
    IF i > Len(sorted) - 1 THEN RInt(0)
    ELSE IF RLe(sorted[i].p, u) /\ RLe(u, sorted[i + 1].p)
         THEN Interpolate(sorted[i], sorted[i + 1], u)
         ELSE Bracket(sorted, i + 1, u)

\* A lock that spares the two ends themselves
LockedOutside(u, lockEnds) == lockEnds /\ (RLt(u, RInt(0)) \/ RLt(RInt(1), u))

\* lockEnds && (u <= 0 || u >= 1)
Locked(u, lockEnds) == lockEnds /\ (RLe(u, RInt(0)) \/ RLe(RInt(1), u))

\* A gradient that is 0 outside the stops
evalGradientInside(stops, u, lockEnds) ==
    IF Locked(u, lockEnds) THEN RInt(0)
    ELSE IF Len(stops) = 0 THEN RInt(0)
    ELSE Bracket(SortStops(stops), 1, u)

\* evalGradient(u, lockEnds) over the memoized stops
evalGradient(stops, u, lockEnds) ==
    IF Locked(u, lockEnds) THEN RInt(0)
    ELSE IF Len(stops) = 0 THEN RInt(0)
    ELSE LET sorted == SortStops(stops)
             last   == sorted[Len(sorted)]
         IN  IF RLe(u, sorted[1].p) THEN sorted[1].v
             ELSE IF RLe(last.p, u) THEN last.v
             ELSE Bracket(sorted, 1, u)

-----------------------------------------------------------------------------
(* The sweep variant: wall fill *)

\* str.split(','): the pieces of str between the commas (44)
RECURSIVE SplitComma(_)
SplitComma(str) ==
    IF \A i \in 1..Len(str) : str[i] # 44 THEN <<str>>
    ELSE LET i == CHOOSE j \in 1..Len(str) :
                      str[j] = 44 /\ \A m \in 1..(j - 1) : str[m] # 44
         IN  <<SubSeq(str, 1, i - 1)>> \o SplitComma(SubSeq(str, i + 1, Len(str)))

\* .map(t => t.trim()).filter(t => t.length > 0)
TrimmedNonEmpty(texts) ==
    SelectSeq([i \in 1..Len(texts) |-> Trim(texts[i])], LAMBDA t : t # <<>>)

\* for (const text of texts) for (const char of chars) result.push(...)
RECURSIVE PushAll(_, _)
PushAll(result, texts) ==
    IF texts = <<>> THEN result
    ELSE PushAll(result \o [i \in 1..Len(Head(texts)) |->
                              IF Head(texts)[i] = 0 THEN 63 ELSE Head(texts)[i]],
                 Tail(texts))

\* A pool that keeps a space between the texts
sweepBuildFixedPoolSpaced(textArray) ==
    LET texts == TrimmedNonEmpty(textArray.texts)
    IN  IF texts = <<>> THEN <<19968>>
        ELSE PushAll(<<>>, [i \in 1..(2 * Len(texts) - 1) |->
                              IF i % 2 = 1 THEN texts[(i + 1) \div 2] ELSE <<32>>])

\* A pool that may come out empty

\* buildFixedPool(textArray, orientation) of the sweep variant.  The argument
\* is [kind, texts]: kind "array" with the strings of the array, or kind
\* "string" with the one legacy string in texts[1].
sweepBuildFixedPool(textArray) ==
    LET texts ==
            IF textArray.kind = "array" THEN TrimmedNonEmpty(textArray.texts)
            ELSE LET str == textArray.texts[1]
                     cleaned == IF str # <<>> /\ Trim(str) # <<>> THEN Trim(str)
                                ELSE FallbackText
                 IN  TrimmedNonEmpty(SplitComma(cleaned))
    IN  IF texts = <<>> THEN <<19968>> ELSE PushAll(<<>>, texts)

\* values.fixedText || ["你好世界"]: a missing value and the
\* empty string are replaced, an empty array is not.
SweepFixedText(vals) ==
    IF vals.fixedText.kind = "missing"
       \/ (vals.fixedText.kind = "string" /\ vals.fixedText.texts[1] = <<>>)
    THEN [kind |-> "array", texts |-> <<FallbackText>>]
    ELSE vals.fixedText

\* values.bgType || "random", values.lang || "chinese",
\* values.textOrientation || "horizontal"
SweepMode(vals) == IF vals.bgType = "" THEN "random" ELSE vals.bgType
SweepScript(vals) == IF vals.lang = "" THEN "chinese" ELSE vals.lang
SweepOrientation(vals) ==
    IF vals.textOrientation = "" THEN "horizontal" ELSE vals.textOrientation

\* One cell of the fill: the codepoint, then Math.random() for the twinkle
\* phase (kept as the sample) and for the twinkle speed (in units of 0.01).
FillCell(g, i, cp, s, k) ==
    [g EXCEPT !.chars[i] = cp,
              !.twPhase[i] = Rand(s, k),
              !.twSpeed[i] = 15 + (Rand(s, k + 1) * 35) \div 100]

\* The column-major loops: for c, for r, with the running charIndex; k is
\* the number of Math.random() calls made so far.
RECURSIVE FillColumns(_, _, _, _, _, _, _)
FillColumns(g, pool, fixedLen, c, r, charIndex, s) ==
    IF c >= g.cols THEN g
    ELSE IF r >= g.rows THEN FillColumns(g, pool, fixedLen, c + 1, 0, charIndex, s)
    ELSE FillColumns(FillCell(g, r * g.cols + c, pool[(charIndex % fixedLen) + 1],
                              s, 2 * charIndex),
                     pool, fixedLen, c, r + 1, charIndex + 1, s)

\* The row-major loop: for i, with the running fi (fixed pool) or a random
\* codepoint (random mode).
RECURSIVE FillRows(_, _, _, _, _, _, _, _)
FillRows(g, mode, script, pool, fixedLen, i, fi, sk) ==
    IF i >= g.cols * g.rows THEN g
    ELSE IF mode = "random"
         THEN LET cp == randomWallCodepoint(script, sk[1], sk[2])
              IN  FillRows(FillCell(g, i, cp[1], sk[1], cp[2]),
                           mode, script, pool, fixedLen, i + 1, fi, <<sk[1], cp[2] + 2>>)
         ELSE FillRows(FillCell(g, i, pool[(fi % fixedLen) + 1], sk[1], sk[2]),
                       mode, script, pool, fixedLen, i + 1, fi + 1, <<sk[1], sk[2] + 2>>)

\* rebuild(): "Chars + twinkle".  g has its geometry and zero-filled arrays.
sweepFill(g, vals, s) ==
    LET fixedPool == sweepBuildFixedPool(SweepFixedText(vals))
        fixedLen == IF Len(fixedPool) = 0 THEN 1 ELSE Len(fixedPool)
    IN  IF SweepMode(vals) = "fixed" /\ SweepOrientation(vals) = "vertical"
        THEN FillColumns(g, fixedPool, fixedLen, 0, 0, 0, s)
        ELSE FillRows(g, SweepMode(vals), SweepScript(vals), fixedPool, fixedLen,
                      0, 0, <<s, 0>>)

-----------------------------------------------------------------------------
(* The sweep variant: grid and frame *)

\* rebuild(): the geometry and the normalized column positions (colNorm is a
\* Float32Array; the model keeps c / denom exact).
sweepRebuild(vals, w, h) ==
    LET cell == Max(8, OrElse(vals.cellSize, 16))
        cols == Max(1, CeilDiv(w, cell))
        rows == Max(1, CeilDiv(h, cell))
        denom == Max(1, cols - 1)
    IN  [cols |-> cols, rows |-> rows, cell |-> cell,
         colNorm |-> [c \in 0..(cols - 1) |->
                        IF cols > 1 THEN Rat(c, denom) ELSE RInt(0)]]

\* The value gridRef of the sweep variant is created with
SweepInitialGrid ==
    [cols |-> 0, rows |-> 0, cell |-> 16, colNorm |-> <<>>,
     chars |-> <<>>, twPhase |-> <<>>, twSpeed |-> <<>>]

\* rebuild(): geometry, then the arrays of the cells and their fill; s is the
\* Math.random() stream.
rebuild(vals, w, h, s) ==
    LET geo == sweepRebuild(vals, w, h)
        zero == [i \in 0..(geo.cols * geo.rows - 1) |-> 0]
    IN  sweepFill([cols |-> geo.cols, rows |-> geo.rows, cell |-> geo.cell,
                   colNorm |-> geo.colNorm,
                   chars |-> zero, twPhase |-> zero, twSpeed |-> zero], vals, s)

\* values.lockEnds ?? true
LockEnds(vals) == vals.lockEnds # "off"

\* draw: halfW, periodSec, period, t, overscan, center
HalfW(vals) == RClamp(ROrDefault(vals.halfW, Rat(26, 100)), Rat(5, 100), Rat(6, 10))
PeriodSec(vals) == RMax(Rat(1, 2), ROrDefault(vals.speed, RInt(10)))
Period(vals) == RMul(PeriodSec(vals), RInt(1000))

\* A phase that is not wrapped into [0, 1)
PhaseUnwrapped(vals, offset, nowMs) == RAdd(RDiv(nowMs, Period(vals)), offset)

Phase(vals, offset, nowMs) == RMod1(RAdd(RDiv(nowMs, Period(vals)), offset))

\* An overscan of the half-width alone
OverscanBare(halfW) == halfW

Overscan(halfW) == RAdd(halfW, Rat(1, 10))

Center(vals, offset, nowMs) ==
    LET overscan == Overscan(HalfW(vals))
    IN  RAdd(RSub(RInt(0), overscan),
             RMul(Phase(vals, offset, nowMs),
                  RAdd(RInt(1), RMul(RInt(2), overscan))))

\* draw(now): the sweep window, the affected column range and, when the
\* boost is visible, the gradient position, the gradient value and the alpha
\* of each column of the range.  nowMs is the timestamp in ms.
draw(g, vals, offset, nowMs) ==
    LET wallBase == RClamp(ROrDefault(vals.wallBase, Rat(8, 100)), RInt(0), Rat(1, 4))
        wallPeak == RClamp(ROrDefault(vals.wallPeak, Rat(65, 100)), RInt(0), RInt(1))
        boostMax == RMax(RInt(0), RSub(wallPeak, wallBase))
        halfW    == HalfW(vals)
        center   == Center(vals, offset, nowMs)
        left     == RSub(center, halfW)
        right    == RAdd(center, halfW)
        lo       == Max(0, RFloor(RMul(left, RInt(g.cols - 1))))
        hi       == Min(g.cols - 1, RCeil(RMul(right, RInt(g.cols - 1))))
        swept    == IF RLt(Rat(5, 10000), boostMax) THEN lo..hi ELSE {}
        u        == [c \in swept |->
                       RDiv(RSub(g.colNorm[c], left),
                            RMax(Epsilon, RMul(RInt(2), halfW)))]
        value    == [c \in swept |-> evalGradient(gradientStops(vals), u[c], LockEnds(vals))]
    IN  [ts |-> nowMs, t |-> Phase(vals, offset, nowMs), before |-> NoNumber,
         halfW |-> halfW,
         overscan |-> Overscan(halfW),
         center |-> center, left |-> left, right |-> right, lo |-> lo, hi |-> hi,
         u |-> u, value |-> value,
         alpha |-> [c \in swept |->
                      RMul(boostMax, RClamp(value[c], RInt(0), RInt(1)))]]

\* No frame drawn, no evaluation made
NoFrame ==
    [ts |-> NoNumber, t |-> NoNumber, before |-> NoNumber, halfW |-> NoNumber,
     overscan |-> NoNumber, center |-> NoNumber,
     left |-> NoNumber, right |-> NoNumber, lo |-> 0, hi |-> 0 - 1,
     u |-> <<>>, value |-> <<>>, alpha |-> <<>>]
NoEval == [u |-> NoNumber, lockEnds |-> FALSE, out |-> NoNumber]

\* No pause yet.  phase: "none", "paused", "resumed" (no frame yet since the
\* resume), "first" (the first frame after the resume has begun); built: a
\* grid was built or a mask rasterized since the pause.
NoHeld == [phase |-> "none", grid |-> <<>>, sweepGrid |-> <<>>, built |-> FALSE]

\* The observation after a grid build or a mask rasterization, and after the
\* start of a frame
HeldBuilt == IF held.phase = "none" THEN held ELSE [held EXCEPT !.built = TRUE]
HeldFrame ==
    IF held.phase = "resumed" THEN [held EXCEPT !.phase = "first"]
    ELSE IF held.phase = "first" THEN NoHeld ELSE held

\* The iframe viewer is not on the page: a component renderer is shown by
\* AutomaComponentViewer
NoViewer ==
    [mounted |-> FALSE, isReady |-> FALSE, initializedRef |-> FALSE, values |-> 0,
     isLive |-> TRUE, changed |-> "", posted |-> <<>>]

\* The shimmer variant is not on the page
NoShimmerFrame == [ts |-> 0 - 1, wall |-> "none", passA |-> FALSE, passB |-> FALSE]
NoShimmer == [values |-> <<>>, cols |-> 0, rows |-> 0, frame |-> NoShimmerFrame]

\* The page as it is shown, no frame callback requested
VisiblePage == [hidden |-> FALSE, pending |-> 0]

\* A cancellation that leaves the callback in the queue
cancelNothing(b, named) == b

\* requestAnimationFrame(loop) adds a callback to the queue of the next
\* display refresh; cancelAnimationFrame(animationRef.current) removes the
\* callback that animationRef names when it is still there (named) and
\* does nothing otherwise.
requestAnimationFrame(b) == [b EXCEPT !.pending = @ + 1]
cancelAnimationFrame(b, named) == IF named THEN [b EXCEPT !.pending = @ - 1] ELSE b

\* The animation loop effect has run with isPaused false: a frame is requested.
LoopStarted ==
    /\ isPaused = FALSE
    /\ animationRef = TRUE
    /\ held = NoHeld
    /\ browser = requestAnimationFrame(VisiblePage)

\* The loop effect runs again because isPaused or one of the functions in its
\* dependency list changed: the cleanup of the run before cancels the frame
\* that animationRef names, the new run requests one unless isPaused.
LoopEffect(paused) ==
    /\ animationRef' = ~paused
    /\ browser' = IF paused THEN cancelAnimationFrame(browser, animationRef)
                  ELSE requestAnimationFrame(cancelAnimationFrame(browser, animationRef))

\* The parameter bag of the sweep variant with nothing set by the host
SweepDefaultValues ==
    [cellSize |-> 16, gradientStops |-> [kind |-> "missing", stops |-> <<>>],
     lockEnds |-> "unset", halfW |-> NoNumber, speed |-> NoNumber,
     wallBase |-> NoNumber, wallPeak |-> NoNumber,
     bgType |-> "", lang |-> "", textOrientation |-> "",
     fixedText |-> [kind |-> "missing", texts |-> <<>>]]

\* The offscreen canvas with nothing painted on it
NoBuffer == [ts |-> 0 - 1, wallBase |-> NoNumber, cols |-> 0, rows |-> 0]

\* The refs as the component creates them, with the wave offset drawn
SweepRefs(offset) ==
    [waveOffset |-> offset, lastBgTsRef |-> 0, bgDirtyRef |-> TRUE, bgCanvas |-> NoBuffer]

\* The sweep variant is not on the page
SweepUnmounted ==
    /\ sweepValues = SweepDefaultValues
    /\ sweepRefs = SweepRefs(RInt(0))
    /\ sweepGrid = SweepInitialGrid
    /\ sweepFrame = NoFrame
    /\ gradientEval = NoEval

-----------------------------------------------------------------------------
(* Operations *)

\* Mount: EFFECT 1 builds the grid, EFFECT 2 rasterizes the same text again
\* when cols > 1, EFFECT 3 sets the force flag, EFFECT 4 starts the loop.
Mounted(vals, w, h, s) ==
    LET g == rebuildAll(InitialGrid, vals, w, h, s)
        g2 == IF g.cols > 1 THEN rasterizeHitMask(g, MaskText(vals), g.cols, g.rows)
              ELSE g
    IN  [g2 EXCEPT !.forceFullWallPaint = TRUE]

InitWith(D, vals) ==
    /\ values = vals
    /\ \E geo \in D.geometry :
         /\ width = geo[1]
         /\ height = geo[2]
         /\ vals.cellSize = geo[3]
    /\ \E s \in D.streams : grid = Mounted(vals, width, height, s)
    /\ wall = BlankWall(grid)
    /\ lastRef = 0
    /\ accRef = 0
    /\ now = 0
    /\ steps = 0
    /\ pc = IF BuildThrows(vals) THEN "crashed" ELSE "idle"
    /\ op = "mount"
    /\ obs = NoObs
    /\ stripes = NoStripes
    /\ SweepUnmounted
    /\ LoopStarted
    /\ shimmer = NoShimmer
    /\ viewer = NoViewer

\* EFFECT 1 after a change of width, height, cellSize, fillMode, script or
\* fixedText: the grid is rebuilt.
Rebuilt(D, vals, w, h) ==
    /\ \E s \in D.streams : grid' = rebuildAll(grid, vals, w, h, s)
    /\ wall' = BlankWall(grid')
    /\ values' = vals
    /\ width' = w
    /\ height' = h
    /\ obs' = NoObs
    /\ stripes' = NoStripes
    /\ held' = HeldBuilt
    /\ pc' = IF BuildThrows(vals) THEN "crashed" ELSE pc
    /\ UNCHANGED <<sweepVars, isPaused, animationRef, browser, viewer, shimmer, lastRef, accRef, now, steps>>

Resize(D) ==
    /\ pc = "idle"
    /\ \E geo \in D.geometry :
         /\ geo # <<width, height, values.cellSize>>
         /\ Rebuilt(D, [values EXCEPT !.cellSize = geo[3]], geo[1], geo[2])
    /\ op' = "resize"

SetFill(D) ==
    /\ pc = "idle"
    /\ \E f \in D.fill :
         /\ f # <<values.fillMode, values.script, values.fixedText>>
         /\ Rebuilt(D, [values EXCEPT !.fillMode = f[1], !.script = f[2],
                                   !.fixedText = f[3]], width, height)
    /\ op' = "fill"

\* A change of maskText: rebuildAll depends on values.maskText, so EFFECT 1
\* (which depends on rebuildAll) rebuilds the grid; then EFFECT 2 rasterizes
\* the new text once more when cols > 1.
SetMaskText(D) ==
    /\ pc = "idle"
    /\ \E m \in D.maskText :
         /\ m # values.maskText
         /\ \E s \in D.streams :
                 LET g == rebuildAll(grid, [values EXCEPT !.maskText = m],
                                     width, height, s)
                 IN  grid' = IF g.cols > 1
                             THEN rasterizeHitMask(g, MaskText([maskText |-> m]),
                                                   g.cols, g.rows)
                             ELSE g
         /\ values' = [values EXCEPT !.maskText = m]
    /\ wall' = BlankWall(grid')
    /\ obs' = NoObs
    /\ op' = "mask"
    /\ stripes' = NoStripes
    /\ held' = HeldBuilt
    /\ UNCHANGED <<sweepVars, isPaused, animationRef, browser, viewer, shimmer, width, height, lastRef, accRef, now,
                   steps, pc>>

\* EFFECT 3 after a change of wallBrightness or twinkleSpeed
SetAppearance(D) ==
    /\ pc = "idle"
    /\ \E a \in D.appearance :
         /\ a # <<values.twinkleSpeed, values.wallBrightness>>
         /\ values' = [values EXCEPT !.twinkleSpeed = a[1], !.wallBrightness = a[2]]
    /\ grid' = [grid EXCEPT !.forceFullWallPaint = TRUE]
    /\ obs' = NoObs
    /\ op' = "appearance"
    /\ LoopEffect(isPaused)
    /\ UNCHANGED <<sweepVars, isPaused, held, viewer, shimmer, width, height, wall, lastRef, accRef, now, steps, pc, stripes>>

\* A change of the strengths or decay rates re-creates stepSimulation and
\* restarts the loop; no grid field is written.
SetSim(D) ==
    /\ pc = "idle"
    /\ \E p \in D.sim :
         /\ p # <<values.outsideStrength, values.insideStrength,
                  values.outsideDecay, values.insideDecay>>
         /\ values' = [values EXCEPT !.outsideStrength = p[1], !.insideStrength = p[2],
                                     !.outsideDecay = p[3], !.insideDecay = p[4]]
    /\ obs' = NoObs
    /\ op' = "sim"
    /\ LoopEffect(isPaused)
    /\ UNCHANGED <<sweepVars, isPaused, held, viewer, shimmer, width, height, grid, wall, lastRef, accRef, now, steps, pc, stripes>>

SetRainSpeed(D) ==
    /\ pc = "idle"
    /\ \E r \in D.rainSpeed :
         /\ r # values.rainSpeed
         /\ values' = [values EXCEPT !.rainSpeed = r]
    /\ obs' = NoObs
    /\ op' = "rate"
    /\ LoopEffect(isPaused)
    /\ UNCHANGED <<sweepVars, isPaused, held, viewer, shimmer, width, height, grid, wall, lastRef, accRef, now, steps, pc, stripes>>

\* stepSimulation() as an operation of its own
StepSimulation(D) ==
    /\ pc = "idle"
    /\ \E s \in D.streams :
         LET r == stepSimulation(grid, values, s)
         IN  /\ grid' = r.g
             /\ obs' = [NoObs EXCEPT !.struck = r.struck, !.pre = r.pre, !.mid = r.mid]
    /\ op' = "step"
    /\ UNCHANGED <<sweepVars, loopVars, viewer, shimmer, values, width, height, wall, lastRef, accRef, now, steps, pc, stripes>>

-----------------------------------------------------------------------------
(* The frame loop (EFFECT 4) *)

\* const MAX_STEPS_PER_FRAME = 3
MAX_STEPS_PER_FRAME == 3

Millisecond == Second \div 1000

\* clamp(values.rainSpeed ?? 12, 1, 120) and 1000 / stepsPerSec
stepsPerSec(vals) == clamp(OrDefault(vals.rainSpeed, 12), 1, 120)
stepMs(vals) == Second \div stepsPerSec(vals)

\* Math.min(50, nowMs - lastRef.current), after
\* `if (!lastRef.current) lastRef.current = nowMs`
FrameDt(last, nowMs) == Min(50 * Millisecond, nowMs - (IF last = 0 THEN nowMs ELSE last))

\* A loop without the cap, and a frame end that keeps the overflow
CanStepUncapped(acc, vals, n) == acc >= stepMs(vals)
KeepOverflow(acc, n) == acc

\* The condition of `while (accRef.current >= stepMs && steps < MAX_STEPS_PER_FRAME)`
CanStep(acc, vals, n) == acc >= stepMs(vals) /\ n < MAX_STEPS_PER_FRAME

\* if (steps === MAX_STEPS_PER_FRAME) accRef.current = 0
DiscardOverflow(acc, n) == IF n = MAX_STEPS_PER_FRAME THEN 0 ELSE acc

\* The clock stops at this time, which bounds the number of frames.
LastTime == MaxFrames * 50 * Millisecond

\* The frame callback starts: the budget grows by the capped frame gap.
FrameBegin(D) ==
    /\ pc = "idle"
    /\ animationRef /\ ~browser.hidden
    /\ \E gap \in D.gaps :
         /\ now + gap <= LastTime
         /\ now' = now + gap
         /\ accRef' = accRef + FrameDt(lastRef, now + gap)
    /\ lastRef' = now'
    /\ steps' = 0
    /\ pc' = "stepping"
    /\ op' = "begin"
    /\ obs' = NoObs
    /\ held' = HeldFrame
    /\ UNCHANGED <<sweepVars, isPaused, animationRef, browser, viewer, shimmer, values, width, height, grid, wall,
                   stripes>>

\* One turn of the while loop
FrameStep(D) ==
    /\ pc = "stepping"
    /\ CanStep(accRef, values, steps)
    /\ \E s \in D.streams :
         LET r == stepSimulation(grid, values, s)
         IN  /\ grid' = r.g
             /\ obs' = [NoObs EXCEPT !.struck = r.struck, !.pre = r.pre, !.mid = r.mid]
    /\ accRef' = accRef - stepMs(values)
    /\ steps' = steps + 1
    /\ op' = "step"
    /\ UNCHANGED <<sweepVars, loopVars, viewer, shimmer, values, width, height, wall, lastRef, now, pc, stripes>>

\* The stripe repaint a render made, added to the current cycle; a cycle
\* starts when the cursor stands at 0.
StripesAfter(g, pt) ==
    IF g.forceFullWallPaint \/ pt.g.nextTwinkleAt = g.nextTwinkleAt THEN stripes
    ELSE LET base == IF g.twRowCursor = 0 THEN NoStripes ELSE stripes
         IN  [n |-> base.n + 1,
              painted |-> base.painted \cup {pt.rows[j] : j \in 1..Len(pt.rows)}]

\* The loop has ended: overflow is discarded and the frame is rendered.
FrameRender ==
    /\ pc = "stepping"
    /\ ~CanStep(accRef, values, steps)
    /\ accRef' = DiscardOverflow(accRef, steps)
    /\ LET pt == render(grid, wall, values, now)
       IN  /\ grid' = pt.g
           /\ wall' = pt.wall
           /\ obs' = [NoObs EXCEPT !.rows = pt.rows, !.cells = pt.cells, !.left = accRef]
           /\ stripes' = StripesAfter(grid, pt)
    /\ pc' = "idle"
    /\ op' = "render"
    /\ UNCHANGED <<sweepVars, loopVars, viewer, shimmer, values, width, height, lastRef, now, steps>>

-----------------------------------------------------------------------------
(* The simulation, observed one stepSimulation() at a time *)

Init == InitWith(SmallDom, DefaultValues)

Next ==
    \/ StepSimulation(SmallDom)
    \/ Resize(SmallDom)
    \/ SetFill(SmallDom)
    \/ SetMaskText(SmallDom)

Spec == Init /\ [][Next]_vars

\* One column of ten rows, whose drop starts at position 9.7 with speed 1.0
\* (Math.random() returns 0.97, 0.29, 0.97, ...).
ScenarioDom ==
    [SmallDom EXCEPT !.geometry = {<<16, 160, 16>>, <<16, 32, 16>>},
                     !.streams = {<<97, 29>>}]

InitScenario == InitWith(ScenarioDom, DefaultValues)

NextScenario ==
    \/ StepSimulation(ScenarioDom)
    \/ Resize(ScenarioDom)
    \/ SetFill(ScenarioDom)
    \/ SetMaskText(ScenarioDom)

SpecScenario == InitScenario /\ [][NextScenario]_vars

\* The renderer under its frame loop, on a wall of one or two cells in fixed
\* fill mode, with frame gaps of 16.7 ms and of 60 ms (a stall).
LoopDom ==
    [SmallDom EXCEPT !.geometry = {<<16, 32, 16>>, <<16, 16, 16>>},
                     !.streams = {<<99>>},
                     !.rainSpeed = {120, Undef},
                     !.appearance = {<<30, 6>>, <<0, 25>>},
                     !.gaps = {2000, 7200}]

InitLoop ==
    InitWith(LoopDom, [DefaultValues EXCEPT !.fillMode = "fixed",
                                            !.fixedText = LegacyText(<<65, 66, 67>>)])

NextLoop ==
    \/ FrameBegin(LoopDom)
    \/ FrameStep(LoopDom)
    \/ FrameRender
    \/ SetRainSpeed(LoopDom)
    \/ SetAppearance(LoopDom)
    \/ Resize(LoopDom)

SpecLoop == InitLoop /\ [][NextLoop]_vars

\* The frame loop at 120 steps per second (a step every 8.33 ms) with frame
\* gaps of 29.2 ms and 20.8 ms: three and a half and two and a half step
\* intervals, so that frames with exactly three steps leave half an interval.
BudgetDom ==
    [LoopDom EXCEPT !.geometry = {<<16, 16, 16>>},
                    !.rainSpeed = {120},
                    !.appearance = {<<30, 6>>},
                    !.gaps = {3500, 2500}]

InitBudget ==
    InitWith(BudgetDom, [DefaultValues EXCEPT !.fillMode = "fixed",
                                              !.fixedText = LegacyText(<<65, 66, 67>>)])

NextBudget ==
    \/ FrameBegin(BudgetDom)
    \/ FrameStep(BudgetDom)
    \/ FrameRender

SpecBudget == InitBudget /\ [][NextBudget]_vars

\* A tall, narrow wall: one column of 4001 or of 2001 rows at cell size 8, so
\* that a stripe of cellsBudget cells is shorter than the wall.
TallDom ==
    [SmallDom EXCEPT !.geometry = {<<8, 32008, 8>>, <<8, 16008, 8>>},
                     !.streams = {<<99>>},
                     !.appearance = {<<30, 6>>, <<12, 25>>, <<0, 6>>},
                     !.gaps = {4000}]

InitTall ==
    InitWith(TallDom, [DefaultValues EXCEPT !.cellSize = 8, !.fillMode = "fixed",
                                            !.rainSpeed = Undef])

NextTall ==
    \/ FrameBegin(TallDom)
    \/ FrameStep(TallDom)
    \/ FrameRender
    \/ SetAppearance(TallDom)
    \/ Resize(TallDom)

SpecTall == InitTall /\ [][NextTall]_vars

\* Two cells whose injection strengths the host changes between steps
StrengthDom ==
    [SmallDom EXCEPT !.geometry = {<<16, 32, 16>>},
                     !.sim = {<<180000, TrailOne, 500, 500>>,
                              <<700000, 20000, 500, 500>>}]

InitStrength == InitWith(StrengthDom, DefaultValues)

NextStrength ==
    \/ StepSimulation(StrengthDom)
    \/ SetSim(StrengthDom)
    \/ SetMaskText(StrengthDom)

SpecStrength == InitStrength /\ [][NextStrength]_vars

\* The slowest decay the clamps allow: the host asks for factors of 1.0, the
\* drop falls once through the wall and does not come back.
DecayDom ==
    [SmallDom EXCEPT !.geometry = {<<16, 32, 16>>, <<16, 16, 16>>},
                     !.streams = {<<0>>}]

InitDecay ==
    InitWith(DecayDom, [DefaultValues EXCEPT !.outsideDecay = 1000,
                                             !.insideDecay = 1000])

NextDecay ==
    \/ StepSimulation(DecayDom)
    \/ Resize(DecayDom)
    \/ SetMaskText(DecayDom)

\* The frame loop keeps calling stepSimulation.
SpecDecay == InitDecay /\ [][NextDecay]_vars /\ WF_vars(StepSimulation(DecayDom))

\* Walls of several sizes: 320 x 160 at cell size 16, a cell size below the
\* minimum of 8, a surface smaller than one cell, and a missing cell size.
GeometryDom ==
    [SmallDom EXCEPT !.geometry = {<<320, 160, 16>>, <<10, 10, 4>>,
                                   <<5, 3, 16>>, <<33, 17, 0>>},
                     !.streams = {<<0>>}]

\* Faint trails, which last one step: the active list stays as short as the
\* number of cells the drops strike in a step.
InitGeometry ==
    InitWith(GeometryDom, [DefaultValues EXCEPT !.outsideStrength = 10000,
                                                !.insideStrength = 10000])

NextGeometry ==
    \/ StepSimulation(GeometryDom)
    \/ Resize(GeometryDom)
    \/ SetFill(GeometryDom)
    \/ SetMaskText(GeometryDom)

SpecGeometry == InitGeometry /\ [][NextGeometry]_vars

\* Walls of one and of two columns whose drops fall below the wall: a
\* Math.random() that returns 0 leaves a drop falling, one that returns 0.99
\* resets it, one that returns 0.99, 0.5, 0.1, 0, ... resets the first drop
\* it is asked about and not the next.
DropsDom ==
    [SmallDom EXCEPT !.geometry = {<<32, 16, 16>>, <<16, 16, 16>>},
                     !.streams = {<<0>>, <<99>>, <<99, 50, 10, 0>>}]

\* Faint trails, which last one step
InitDrops ==
    InitWith(DropsDom, [DefaultValues EXCEPT !.fillMode = "fixed",
                                             !.outsideStrength = 10000,
                                             !.insideStrength = 10000])

NextDrops ==
    \/ StepSimulation(DropsDom)
    \/ Resize(DropsDom)

SpecDrops == InitDrops /\ [][NextDrops]_vars

\* Strengths and decay rates outside their nominal ranges: strengths of 2.0
\* with decay factors of 0 and -0.1, and strengths of -0.5 and -1.0 with decay
\* factors of 2.0 and 0.2, on a wall of one cell, inside the mask (text 2) or
\* outside it (text 4).  A factor of 2.0 is clamped to 0.98, under which a
\* trail of 1.0 lasts some 250 steps.
RangeDom ==
    [SmallDom EXCEPT !.geometry = {<<16, 16, 16>>, <<8, 8, 8>>},
                     !.streams = {<<0>>},
                     !.sim = {<<2 * TrailOne, 2 * TrailOne, 0, 0 - 100>>,
                              <<0 - 500000, 0 - TrailOne, 2000, 200>>}]

InitRange ==
    \E p \in RangeDom.sim, m \in RangeDom.maskText :
        InitWith(RangeDom, [DefaultValues EXCEPT !.maskText = m,
                                                 !.outsideStrength = p[1],
                                                 !.insideStrength = p[2],
                                                 !.outsideDecay = p[3],
                                                 !.insideDecay = p[4]])

NextRange ==
    \/ StepSimulation(RangeDom)
    \/ SetSim(RangeDom)
    \/ Resize(RangeDom)

SpecRange == InitRange /\ [][NextRange]_vars

-----------------------------------------------------------------------------
(* The sweep variant: operations *)

\* The longest time, in ms, the clock of the sweep variant runs
MaxSweepTime == 5000

\* The longest stop list the host supplies
MaxStops == 3

\* All stop lists of at most n stops over the given stops
RECURSIVE StopLists(_, _)
StopLists(S, n) ==
    IF n = 0 THEN {<<>>}
    ELSE LET shorter == StopLists(S, n - 1)
         IN  shorter \cup {Append(l, s) : l \in {k \in shorter : Len(k) = n - 1}, s \in S}

AsParameter(list) == [kind |-> "array", stops |-> list]
Missing == [kind |-> "missing", stops |-> <<>>]

\* The stop list of the scenario: 0 at both ends, 1 in the middle
ScenarioStops ==
    <<[p |-> RInt(0), v |-> RInt(0)], [p |-> Rat(1, 2), v |-> RInt(1)],
      [p |-> RInt(1), v |-> RInt(0)]>>

\* The rain variant is not on the page.
RainUnmounted ==
    /\ values = DefaultValues
    /\ grid = InitialGrid
    /\ wall = <<>>
    /\ lastRef = 0
    /\ accRef = 0
    /\ steps = 0
    /\ pc = "idle"
    /\ obs = NoObs
    /\ stripes = NoStripes

\* Mount of the sweep variant on a surface of w x h: waveOffsetRef is created
\* with Math.random() and set again by EFFECT 3, EFFECT 1 builds the grid.
SweepInitWith(D, w, h) ==
    /\ RainUnmounted
    /\ width = w
    /\ height = h
    /\ now = 0
    /\ op = "mount"
    /\ \E st \in D.stops, le \in D.lockEnds, hw \in D.halfW, sp \in D.speed :
         sweepValues = [SweepDefaultValues EXCEPT !.gradientStops = st, !.lockEnds = le,
                                                  !.halfW = hw, !.speed = sp]
    /\ \E s \in D.streams :
         /\ sweepRefs = SweepRefs(Rat(Rand(s, 1), 100))
         /\ sweepGrid = rebuild(sweepValues, w, h, s)
    /\ sweepFrame = NoFrame
    /\ gradientEval = NoEval
    /\ LoopStarted
    /\ shimmer = NoShimmer
    /\ viewer = NoViewer

\* The copy of the base wall is repainted BG_FPS times a second
BG_FPS == 12
BgInterval == (1000 * Millisecond) \div BG_FPS

\* A repaint that waits for the interval whatever the dirty mark says
updateBaseWallThrottled(refs, g, vals, nowT) ==
    IF nowT - refs.lastBgTsRef < BgInterval THEN refs
    ELSE [refs EXCEPT !.lastBgTsRef = nowT, !.bgDirtyRef = FALSE,
                      !.bgCanvas = [ts |-> nowT,
                                    wallBase |-> RClamp(ROrDefault(vals.wallBase, Rat(8, 100)),
                                                        RInt(0), Rat(1, 4)),
                                    cols |-> g.cols, rows |-> g.rows]]

\* updateBaseWall(now): returns at once unless the copy is marked dirty or
\* the interval has passed; otherwise notes the time, clears the mark and
\* paints every cell of the grid at the wall brightness.
updateBaseWall(refs, g, vals, nowT) ==
    IF ~refs.bgDirtyRef /\ nowT - refs.lastBgTsRef < BgInterval THEN refs
    ELSE [refs EXCEPT !.lastBgTsRef = nowT, !.bgDirtyRef = FALSE,
                      !.bgCanvas = [ts |-> nowT,
                                    wallBase |-> RClamp(ROrDefault(vals.wallBase, Rat(8, 100)),
                                                        RInt(0), Rat(1, 4)),
                                    cols |-> g.cols, rows |-> g.rows]]

\* One frame: loop(ts) calls draw(ts).  The observation keeps the phase of
\* the frame before.
Draw(D) ==
    /\ animationRef /\ ~browser.hidden
    /\ sweepGrid.cols # 0 /\ sweepGrid.rows # 0
    /\ \E gap \in D.gaps :
         /\ now + gap <= MaxSweepTime * Millisecond
         /\ now' = now + gap
    /\ sweepFrame' = [draw(sweepGrid, sweepValues, sweepRefs.waveOffset,
                           Rat(now', Millisecond))
                        EXCEPT !.before = sweepFrame.t]
    /\ op' = "draw"
    /\ sweepRefs' = updateBaseWall(sweepRefs, sweepGrid, sweepValues, now')
    /\ held' = HeldFrame
    /\ UNCHANGED <<rainVars, isPaused, animationRef, browser, viewer, shimmer, width, height, sweepValues,
                   sweepGrid, gradientEval>>

\* A parameter of the sweep changed: what the last frame showed is history.
SweepSet(vals) ==
    /\ sweepValues' = vals
    /\ sweepFrame' = NoFrame
    /\ gradientEval' = NoEval
    /\ LoopEffect(isPaused)
    /\ UNCHANGED <<rainVars, isPaused, held, viewer, shimmer, width, height, now, sweepGrid>>

\* values.gradientStops changes: the memo is recomputed on the next render.
SetGradientStops(D) ==
    /\ \E st \in D.changes :
         /\ st # sweepValues.gradientStops
         /\ SweepSet([sweepValues EXCEPT !.gradientStops = st])
    /\ op' = "stops"
    /\ UNCHANGED sweepRefs

SetLockEnds(D) ==
    /\ \E le \in D.lockEnds :
         /\ le # sweepValues.lockEnds
         /\ SweepSet([sweepValues EXCEPT !.lockEnds = le])
    /\ op' = "lock"
    /\ UNCHANGED sweepRefs

SetHalfW(D) ==
    /\ \E hw \in D.halfW :
         /\ hw # sweepValues.halfW
         /\ SweepSet([sweepValues EXCEPT !.halfW = hw])
    /\ op' = "halfW"
    /\ UNCHANGED sweepRefs

\* values.wallBase changes: EFFECT 4 marks the copy of the base wall dirty.
SetWallBase(D) ==
    /\ \E wb \in D.wallBase :
         /\ wb # sweepValues.wallBase
         /\ SweepSet([sweepValues EXCEPT !.wallBase = wb])
    /\ sweepRefs' = [sweepRefs EXCEPT !.bgDirtyRef = TRUE]
    /\ op' = "wallBase"

\* values.speed changes: EFFECT 3 draws a new wave offset.
SetSpeed(D) ==
    /\ \E sp \in D.speed :
         /\ sp # sweepValues.speed
         /\ SweepSet([sweepValues EXCEPT !.speed = sp])
    /\ \E s \in D.streams : sweepRefs' = [sweepRefs EXCEPT !.waveOffset = Rat(Rand(s, 0), 100)]
    /\ op' = "speed"

\* evalGradient(u, lockEnds), called on its own
EvalGradient(D) ==
    /\ \E u \in D.probes, lock \in BOOLEAN :
         gradientEval' = [u |-> u, lockEnds |-> lock,
                          out |-> evalGradient(gradientStops(sweepValues), u, lock)]
    /\ op' = "eval"
    /\ UNCHANGED <<rainVars, loopVars, viewer, shimmer, width, height, now, sweepValues, sweepRefs, sweepGrid, sweepFrame>>

\* The gradient of the sweep variant: every stop list of up to MaxStops stops
\* at positions 0, 1/2, 1 with values 0, 1/2, 1, lists with duplicates in the
\* middle, and no list at all, evaluated at points before, at, between and
\* after the stops.
\* Lists of four stops, two of them sharing the middle position
MiddleDuplicates ==
    {<<[p |-> RInt(0), v |-> a], [p |-> Rat(1, 2), v |-> b],
       [p |-> Rat(1, 2), v |-> c], [p |-> RInt(1), v |-> d]>> :
        a \in {RInt(0)}, b \in {RInt(0), RInt(1)}, c \in {RInt(0), RInt(1)},
        d \in {RInt(0), RInt(1)}}

GradientDom ==
    [stops |-> {AsParameter(l) :
                  l \in StopLists({[p |-> pp, v |-> vv] :
                                     pp \in {RInt(0), Rat(1, 2), RInt(1)},
                                     vv \in {RInt(0), Rat(1, 2), RInt(1)}}, MaxStops)
                        \cup MiddleDuplicates}
               \cup {Missing},
     changes |-> {AsParameter(ScenarioStops), Missing},
     lockEnds |-> {"unset"},
     halfW |-> {Rat(1, 2)},
     speed |-> {Rat(22, 5)},
     streams |-> {<<0>>},
     gaps |-> {},
     probes |-> {Rat(0 - 1, 4), RInt(0), Rat(1, 4), Rat(1, 2), Rat(3, 4), RInt(1),
                 Rat(5, 4)}]

InitGradient == SweepInitWith(GradientDom, 80, 16)

NextGradient ==
    \/ EvalGradient(GradientDom)
    \/ SetGradientStops(GradientDom)

SpecGradient == InitGradient /\ [][NextGradient]_vars

\* The sweep over a wall of five columns: periods of 4.4 s, 0.5 s (asked for
\* 0.25 s) and 10 s (none asked for), half-widths of 0.5, 0.26 (none asked
\* for) and 0.05 (asked for 0.01), wave offsets 0 and 0.5, frames 100 ms or
\* 500 ms apart.
SweepDom ==
    [stops |-> {AsParameter(ScenarioStops), Missing},
     changes |-> {AsParameter(ScenarioStops), Missing},
     lockEnds |-> {"off", "unset"},
     halfW |-> {Rat(1, 2), NoNumber, Rat(1, 100)},
     speed |-> {Rat(22, 5), Rat(1, 4), NoNumber},
     streams |-> {<<0>>, <<50>>},
     gaps |-> {100 * Millisecond, 500 * Millisecond},
     probes |-> {}]

InitSweep == SweepInitWith(SweepDom, 80, 16)

NextSweep ==
    \/ Draw(SweepDom)
    \/ SetGradientStops(SweepDom)
    \/ SetLockEnds(SweepDom)
    \/ SetHalfW(SweepDom)
    \/ SetSpeed(SweepDom)

SpecSweep == InitSweep /\ [][NextSweep]_vars

\* The sweep over a wall of 5 columns with a profile that is 1 at its left
\* end and 0.5 at its right end, beside the scenario's and the built-in one
EndedStops ==
    <<[p |-> RInt(0), v |-> RInt(1)], [p |-> RInt(1), v |-> Rat(1, 2)]>>

CullDom ==
    [SweepDom EXCEPT !.stops = {AsParameter(ScenarioStops), Missing,
                                AsParameter(EndedStops)},
                     !.changes = {AsParameter(ScenarioStops), AsParameter(EndedStops)},
                     !.lockEnds = {"off", "unset", "on"},
                     !.halfW = {Rat(1, 2), Rat(1, 10)},
                     !.speed = {Rat(22, 5)},
                     !.streams = {<<0>>}]

InitCull == SweepInitWith(CullDom, 80, 16)

NextCull ==
    \/ Draw(CullDom)
    \/ SetGradientStops(CullDom)
    \/ SetLockEnds(CullDom)
    \/ SetHalfW(CullDom)

SpecCull == InitCull /\ [][NextCull]_vars

\* EFFECT 1 of the sweep variant after a change of one of its dependencies:
\* nothing without a surface, else rebuild().
SweepRebuilt(D, vals, w, h) ==
    /\ sweepValues' = vals
    /\ width' = w
    /\ height' = h
    /\ IF w = 0 \/ h = 0 THEN sweepGrid' = sweepGrid
       ELSE \E s \in D.streams : sweepGrid' = rebuild(vals, w, h, s)
    /\ sweepFrame' = NoFrame
    /\ gradientEval' = NoEval
    /\ sweepRefs' = IF w = 0 \/ h = 0 THEN sweepRefs
                    ELSE [sweepRefs EXCEPT !.bgDirtyRef = TRUE, !.bgCanvas = NoBuffer]
    /\ held' = HeldBuilt
    /\ UNCHANGED <<rainVars, isPaused, animationRef, browser, viewer, shimmer, now>>

SweepResize(D) ==
    /\ \E geo \in D.geometry :
         /\ geo # <<width, height, sweepValues.cellSize>>
         /\ SweepRebuilt(D, [sweepValues EXCEPT !.cellSize = geo[3]], geo[1], geo[2])
    /\ op' = "resize"

SetFixedText(D) ==
    /\ \E ft \in D.fixedText :
         /\ ft # sweepValues.fixedText
         /\ SweepRebuilt(D, [sweepValues EXCEPT !.fixedText = ft], width, height)
    /\ op' = "fixedText"

SetTextOrientation(D) ==
    /\ \E o \in D.textOrientation :
         /\ o # sweepValues.textOrientation
         /\ SweepRebuilt(D, [sweepValues EXCEPT !.textOrientation = o], width, height)
    /\ op' = "orientation"

SetBgType(D) ==
    /\ \E m \in D.bgType :
         /\ m # sweepValues.bgType
         /\ SweepRebuilt(D, [sweepValues EXCEPT !.bgType = m], width, height)
    /\ op' = "bgType"

\* The wall fill of the sweep variant on walls of 4 x 3, 5 x 2 and 1 x 1
\* cells.  Texts (65 = "A", 32 = " ", 44 = ",", 0 = NUL): the arrays ["AB"],
\* ["AB", "C"], [" A ", "", "  ", "BC"], ["A,B"], ["A\0"], [], [""], ["  "];
\* the legacy strings "AB", "A, B,,C", " ", ""; and no text.
FillDom ==
    [geometry |-> {<<32, 24, 8>>, <<40, 16, 8>>, <<5, 3, 16>>},
     fixedText |-> {TextArray(<<<<65, 66>>>>), TextArray(<<<<65, 66>>, <<67>>>>),
                    TextArray(<<<<32, 65, 32>>, <<>>, <<32, 32>>, <<66, 67>>>>),
                    TextArray(<<<<65, 44, 66>>>>), TextArray(<<<<65, 0>>>>),
                    TextArray(<<>>), TextArray(<<<<>>>>), TextArray(<<<<32, 32>>>>),
                    LegacyText(<<65, 66>>), LegacyText(<<65, 44, 32, 66, 44, 44, 67>>),
                    LegacyText(<<32>>), LegacyText(<<>>), NoText},
     textOrientation |-> {"", "horizontal", "vertical"},
     bgType |-> {"fixed", ""},
     streams |-> {<<0>>}]

InitFill ==
    /\ RainUnmounted
    /\ now = 0
    /\ op = "mount"
    /\ \E geo \in FillDom.geometry, ft \in FillDom.fixedText,
          o \in FillDom.textOrientation, m \in FillDom.bgType :
         /\ width = geo[1]
         /\ height = geo[2]
         /\ sweepValues = [SweepDefaultValues EXCEPT !.cellSize = geo[3], !.fixedText = ft,
                                                     !.textOrientation = o, !.bgType = m]
    /\ sweepRefs = SweepRefs(RInt(0))
    /\ sweepGrid = rebuild(sweepValues, width, height, <<0>>)
    /\ sweepFrame = NoFrame
    /\ gradientEval = NoEval
    /\ LoopStarted
    /\ shimmer = NoShimmer
    /\ viewer = NoViewer

NextFill ==
    \/ SweepResize(FillDom)
    \/ SetFixedText(FillDom)
    \/ SetTextOrientation(FillDom)
    \/ SetBgType(FillDom)

SpecFill == InitFill /\ [][NextFill]_vars

\* Gradient parameters that are no JSON array of stops: a string that does
\* not parse, JSON that is no array, a value that is no string, and an array
\* with a null element (reading its p throws inside the try block).
Unparseable == [kind |-> "garbage", stops |-> <<>>]
NotAnArray == [kind |-> "object", stops |-> <<>>]
NotAString == [kind |-> "nostring", stops |-> ScenarioStops]
WithNullStop == [kind |-> "throws", stops |-> ScenarioStops]

\* Arrays with a stop whose position or value is not a number (Number(x) is
\* NaN), and one whose numbers are out of range
NonNumericStops ==
    {<<[p |-> NoNumber, v |-> RInt(1)], [p |-> RInt(1), v |-> RInt(0)]>>,
     <<[p |-> RInt(0), v |-> RInt(0)], [p |-> Rat(1, 2), v |-> NoNumber],
       [p |-> RInt(1), v |-> RInt(1)]>>,
     <<[p |-> NoNumber, v |-> NoNumber]>>,
     <<[p |-> RInt(0 - 1), v |-> RInt(2)], [p |-> RInt(3), v |-> Rat(1, 2)]>>}

MalformedDom ==
    [GradientDom EXCEPT
        !.stops = {Missing, Unparseable, NotAnArray, NotAString, WithNullStop,
                   AsParameter(ScenarioStops), AsParameter(<<>>)}
                  \cup {AsParameter(l) : l \in NonNumericStops},
        !.changes = {Missing, Unparseable, WithNullStop, AsParameter(ScenarioStops)}
                    \cup {AsParameter(l) : l \in NonNumericStops}]

InitMalformed == SweepInitWith(MalformedDom, 80, 16)

NextMalformed ==
    \/ EvalGradient(MalformedDom)
    \/ SetGradientStops(MalformedDom)

SpecMalformed == InitMalformed /\ [][NextMalformed]_vars

\* The sweep at 20 and at 10 frames a second, so that some frames fall inside
\* the repaint interval of the base wall and some do not; the host changes
\* the wall brightness and the size of the surface.
BaseWallDom ==
    [stops |-> {Missing}, lockEnds |-> {"unset"}, halfW |-> {Rat(1, 2)},
     speed |-> {Rat(22, 5)}, streams |-> {<<0>>},
     gaps |-> {50 * Millisecond, 100 * Millisecond},
     wallBase |-> {NoNumber, Rat(2, 10), Rat(1, 2)},
     geometry |-> {<<80, 16, 16>>, <<32, 16, 16>>, <<0, 16, 16>>}]

MaxBaseWallTime == 400

InitBaseWall == SweepInitWith(BaseWallDom, 80, 16)

NextBaseWall ==
    \/ now < MaxBaseWallTime * Millisecond /\ Draw(BaseWallDom)
    \/ SetWallBase(BaseWallDom)
    \/ SweepResize(BaseWallDom)

SpecBaseWall == InitBaseWall /\ [][NextBaseWall]_vars

-----------------------------------------------------------------------------
(* Pause and resume *)

\* isPaused becomes true: the cleanup of the loop effect cancels the requested
\* frame, the effect cancels again and returns without requesting one.  The
\* host's handlers run between frame callbacks, never inside one.
Pause ==
    /\ pc = "idle"
    /\ ~isPaused
    /\ isPaused' = TRUE
    /\ LoopEffect(TRUE)
    /\ held' = [phase |-> "paused", grid |-> grid, sweepGrid |-> sweepGrid,
                built |-> FALSE]
    /\ op' = "pause"
    /\ UNCHANGED <<rainVars, sweepVars, viewer, shimmer, width, height, now>>

\* A resume that starts the wall afresh
ResumeRebuilding ==
    /\ isPaused
    /\ isPaused' = FALSE
    /\ LoopEffect(FALSE)
    /\ held' = [held EXCEPT !.phase = "resumed"]
    /\ op' = "resume"
    /\ grid' = IF grid.wallChars = <<>> THEN grid
               ELSE rebuildAll(grid, values, width, height, <<0>>)
    /\ UNCHANGED <<values, wall, lastRef, accRef, steps, pc, obs, stripes,
                   sweepVars, viewer, shimmer, width, height, now>>

\* isPaused becomes false: the loop effect requests a frame.
Resume ==
    /\ isPaused
    /\ isPaused' = FALSE
    /\ LoopEffect(FALSE)
    /\ held' = [held EXCEPT !.phase = "resumed"]
    /\ op' = "resume"
    /\ UNCHANGED <<rainVars, sweepVars, viewer, shimmer, width, height, now>>

RainMounted == grid.wallChars # <<>>
SweepMounted == sweepGrid.cols # 0

\* Either renderer under its frame loop, paused and resumed by the host, who
\* also resizes the surface and changes the appearance, paused or not.
PauseDom ==
    [SmallDom EXCEPT !.geometry = {<<16, 32, 16>>, <<16, 16, 16>>},
                     !.streams = {<<99>>},
                     !.rainSpeed = {120},
                     !.appearance = {<<30, 6>>, <<0, 25>>},
                     !.gaps = {2000, 7200}]

SweepPauseDom ==
    [SweepDom EXCEPT !.lockEnds = {"unset"}, !.halfW = {Rat(1, 2)},
                     !.speed = {Rat(22, 5)}, !.streams = {<<0>>},
                     !.gaps = {50 * Millisecond}]

SweepPauseGeometry == [geometry |-> {<<80, 16, 16>>, <<32, 16, 16>>}, streams |-> {<<0>>}]

InitPause ==
    \/ InitWith(PauseDom, [DefaultValues EXCEPT !.fillMode = "fixed",
                                                !.fixedText = LegacyText(<<65, 66, 67>>)])
    \/ SweepInitWith(SweepPauseDom, 80, 16)

NextPause ==
    \/ Pause
    \/ Resume
    \/ RainMounted /\ FrameBegin(PauseDom)
    \/ FrameStep(PauseDom)
    \/ FrameRender
    \/ RainMounted /\ Resize(PauseDom)
    \/ RainMounted /\ SetAppearance(PauseDom)
    \/ now < LastTime /\ Draw(SweepPauseDom)     \* the clock stops at LastTime
    \/ SweepMounted /\ SweepResize(SweepPauseGeometry)
    \/ SweepMounted /\ SetGradientStops(SweepPauseDom)

SpecPause == InitPause /\ [][NextPause]_vars

-----------------------------------------------------------------------------
(* The page is hidden and shown again *)

\* visibilitychange with document.hidden true: handleVisibilityChange cancels
\* the frame that animationRef names.
Hide ==
    /\ pc = "idle"
    /\ ~browser.hidden
    /\ browser' = [cancelAnimationFrame(browser, animationRef) EXCEPT !.hidden = TRUE]
    /\ animationRef' = FALSE
    /\ op' = "hide"
    /\ UNCHANGED <<rainVars, sweepVars, isPaused, held, viewer, shimmer, width, height, now>>

\* visibilitychange with document.hidden false: the handler's condition is
\* false and it does nothing.
Show ==
    /\ browser.hidden
    /\ browser' = [browser EXCEPT !.hidden = FALSE]
    /\ op' = "show"
    /\ UNCHANGED <<rainVars, sweepVars, isPaused, animationRef, held, viewer, shimmer, width,
                   height, now>>

\* Either renderer at one frame per display refresh of 60 Hz
VisibleDom == [PauseDom EXCEPT !.gaps = {2000}, !.geometry = {<<16, 16, 16>>}]

SweepVisibleDom ==
    [SweepPauseDom EXCEPT !.changes = {AsParameter(ScenarioStops), AsParameter(EndedStops)}]

InitVisible ==
    \/ InitWith(VisibleDom, [DefaultValues EXCEPT !.fillMode = "fixed",
                                                  !.fixedText = LegacyText(<<65, 66, 67>>)])
    \/ SweepInitWith(SweepVisibleDom, 80, 16)

RainFrame ==
    \/ RainMounted /\ FrameBegin(VisibleDom)
    \/ FrameStep(VisibleDom)
    \/ FrameRender

SweepFrame == now < LastTime /\ Draw(SweepVisibleDom)

NextVisible ==
    \/ Hide
    \/ Show
    \/ Pause
    \/ Resume
    \/ RainFrame
    \/ SweepFrame
    \/ RainMounted /\ SetAppearance(VisibleDom)
    \/ SweepMounted /\ SetGradientStops(SweepVisibleDom)

SpecVisible == InitVisible /\ [][NextVisible]_vars

\* The rain renderer alone.  The browser runs a requested frame callback at
\* the next display refresh of a visible page, and a callback that has
\* started runs to its end.
InitRainVisible ==
    InitWith(VisibleDom, [DefaultValues EXCEPT !.fillMode = "fixed",
                                               !.fixedText = LegacyText(<<65, 66, 67>>)])

NextRainVisible ==
    \/ Hide
    \/ Show
    \/ Pause
    \/ Resume
    \/ RainFrame
    \/ SetAppearance(VisibleDom)

FairVisible == InitRainVisible /\ [][NextRainVisible]_vars /\ WF_vars(RainFrame)

-----------------------------------------------------------------------------
(* The auto-fit of the mask text *)

\* What measureText reports for a font: the advance of a glyph and the
\* ascent and descent of a line as fractions of the font size, and whether
\* widths come in whole pixels.
Fonts ==
    {[advance |-> Rat(1, 2), ascent |-> Rat(7, 10), descent |-> Rat(2, 10), hinted |-> FALSE],
     [advance |-> RInt(1), ascent |-> Rat(8, 10), descent |-> Rat(2, 10), hinted |-> TRUE]}

\* measure(sz) for lines given by their lengths: the widest line, at least 1,
\* and the height of the block with a leading of 0.2 sz.
measure(sz, lines, font) ==
    LET raw(k) == RMul(RMul(font.advance, sz), RInt(lines[k]))
        w(k) == RMax(IF font.hinted THEN RInt(RCeil(raw(k))) ELSE raw(k), RInt(1))
        widest[k \in 0..Len(lines)] ==
            IF k = 0 THEN RInt(1) ELSE RMax(widest[k - 1], w(k))
        a == RMul(font.ascent, sz)
        d == RMul(font.descent, sz)
        lh == RAdd(RAdd(a, d), RMul(Rat(2, 10), sz))
    IN  [maxLineWidth |-> widest[Len(lines)],
         totalH |-> RAdd(RAdd(a, d), RMul(RInt(Len(lines) - 1), lh))]

\* Math.min(maxW / m.maxLineWidth, maxH / Math.max(1, m.totalH))
FitScale(m, cols, rows) ==
    RMin(RDiv(Rat(9 * cols, 10), m.maxLineWidth),
         RDiv(Rat(9 * rows, 10), RMax(RInt(1), m.totalH)))

FitEnough == Rat(995, 1000)

\* A loop that is content with a block one tenth too large
RECURSIVE fitLoopLoose(_, _, _, _, _, _)
fitLoopLoose(size, i, lines, cols, rows, font) ==
    LET scale == FitScale(measure(size, lines, font), cols, rows)
    IN  IF i = 7 \/ RLe(Rat(9, 10), scale)
        THEN [size |-> size, iterations |-> i, scale |-> scale]
        ELSE fitLoopLoose(RMax(RInt(4), RMul(size, scale)), i + 1, lines, cols, rows, font)

\* for (let i = 0; i < 7; i++) { scale = ...; if (scale >= 0.995) break;
\* size = Math.max(4, size * scale); m = measure(size) }: the size the loop
\* leaves, the number of rescales and the scale the last measurement needs.
RECURSIVE fitLoop(_, _, _, _, _, _)
fitLoop(size, i, lines, cols, rows, font) ==
    LET scale == FitScale(measure(size, lines, font), cols, rows)
    IN  IF i = 7 \/ RLe(FitEnough, scale)
        THEN [size |-> size, iterations |-> i, scale |-> scale]
        ELSE fitLoop(RMax(RInt(4), RMul(size, scale)), i + 1, lines, cols, rows, font)

\* The auto-fit of rasterizeHitMask from let size = Math.max(4, Math.min(cols, rows))
autoFit(lines, cols, rows, font) ==
    fitLoop(RInt(Max(4, Min(cols, rows))), 0, lines, cols, rows, font)

\* Texts as the lengths of their lines, and grids as <<cols, rows>>
FitDom ==
    [texts |-> {<<1>>, <<2>>, <<3, 1>>, <<5>>, <<12>>, <<2, 2, 2>>, <<40>>},
     grids |-> {<<1, 1>>, <<4, 4>>, <<5, 8>>, <<6, 6>>, <<7, 7>>, <<10, 6>>, <<30, 20>>, <<40, 40>>}]

InitFit ==
    /\ RainUnmounted
    /\ SweepUnmounted
    /\ width = 0
    /\ height = 0
    /\ now = 0
    /\ op = "none"
    /\ LoopStarted
    /\ shimmer = NoShimmer
    /\ viewer = NoViewer

\* rasterizeHitMask(word, cols, rows) up to the font size it draws with
AutoFit(D) ==
    /\ \E lines \in D.texts, g \in D.grids, font \in Fonts :
         obs' = [NoObs EXCEPT !.fit = [lines |-> lines, cols |-> g[1], rows |-> g[2],
                                       font |-> font,
                                       out |-> autoFit(lines, g[1], g[2], font)]]
    /\ op' = "fit"
    /\ UNCHANGED <<sweepVars, loopVars, viewer, shimmer, values, width, height, grid, wall, lastRef,
                   accRef, now, steps, pc, stripes>>

NextFit == AutoFit(FitDom)

SpecFit == InitFit /\ [][NextFit]_vars

-----------------------------------------------------------------------------
(* The shimmer variant *)

\* The parameters of the shimmer that the passes of draw read, with nothing
\* set by the host
ShimmerDefaultValues ==
    [wallSweep |-> "unset", wallSweepStrength |-> NoNumber, lockEnds |-> "unset",
     baseB |-> NoNumber, peakB |-> NoNumber]

\* The names bound where the wall pass calls evalGradient(u, lockEnds): the
\* helpers of the module, the names of the component, and what draw has
\* declared before that line.  draw declares lockEnds once, inside the block
\* of pass B, where the second call of evalGradient(u, lockEnds) finds it.
WallPassScope ==
    {"clamp", "hexToRgba", "values", "width", "height", "colors", "canvasRef", "gridRef",
     "waveOffsetRef", "gradientStops", "evalGradient",
     "ts", "canvas", "ctx", "grid", "dpr", "fontPx", "bgB", "baseB", "peakB", "halfW",
     "periodSec", "period", "t", "overscan", "center", "denom", "time", "textColorRgba",
     "wallSweepEnabled", "wallSweepStrength", "r", "y", "c", "x", "i", "tw", "brightness",
     "rx", "left", "u"}

\* draw(ts): the wall pass over every cell, pass A when the text has a base
\* brightness, pass B when the sweep adds to it.  Reading a name that is not
\* bound throws a ReferenceError, which ends draw where it stands.
shimmerDraw(sh, ts) ==
    LET baseB == RClamp(ROrDefault(sh.values.baseB, Rat(12, 100)), RInt(0), RInt(1))
        peakB == RClamp(ROrDefault(sh.values.peakB, RInt(1)), RInt(0), RInt(1))
        boostMax == RMax(RInt(0), RSub(peakB, baseB))
        wallSweepEnabled == sh.values.wallSweep = "on"
        wallThrows == /\ wallSweepEnabled
                      /\ sh.cols * sh.rows > 0
                      /\ "lockEnds" \notin WallPassScope
        passB == RLt(Rat(5, 10000), boostMax)
    IN  IF wallThrows
        THEN [ts |-> ts, wall |-> "thrown", passA |-> FALSE, passB |-> FALSE]
        ELSE [ts |-> ts, wall |-> "painted", passA |-> RLt(Rat(5, 10000), baseB),
              passB |-> passB]

\* The passes that draw(ts) has to complete for these parameters
Completed(sh) ==
    LET baseB == RClamp(ROrDefault(sh.values.baseB, Rat(12, 100)), RInt(0), RInt(1))
        peakB == RClamp(ROrDefault(sh.values.peakB, RInt(1)), RInt(0), RInt(1))
    IN  /\ sh.frame.wall = "painted"
        /\ sh.frame.passA = RLt(Rat(5, 10000), baseB)
        /\ sh.frame.passB = RLt(Rat(5, 10000), RMax(RInt(0), RSub(peakB, baseB)))

ShimmerDom ==
    [wallSweep |-> {"unset", "off", "on"},
     wallSweepStrength |-> {NoNumber, Rat(1, 2), RInt(1)},
     brightness |-> {<<NoNumber, NoNumber>>, <<Rat(1, 2), Rat(1, 2)>>, <<RInt(0), RInt(1)>>},
     gaps |-> {50 * Millisecond}]

MaxShimmerTime == 200

\* Mount of the shimmer on a surface of w x h: rebuild makes a grid of at
\* least one cell, the loop effect requests a frame.
InitShimmer ==
    /\ RainUnmounted
    /\ SweepUnmounted
    /\ width = 80
    /\ height = 16
    /\ now = 0
    /\ op = "mount"
    /\ isPaused = FALSE
    /\ animationRef = TRUE
    /\ held = NoHeld
    /\ browser = requestAnimationFrame(VisiblePage)
    /\ viewer = NoViewer
    /\ \E ws \in ShimmerDom.wallSweep :
         shimmer = [values |-> [ShimmerDefaultValues EXCEPT !.wallSweep = ws],
                    cols |-> Max(1, CeilDiv(width, 16)),
                    rows |-> Max(1, CeilDiv(height, 16)),
                    frame |-> NoShimmerFrame]

\* The frame callback of the shimmer: loop(ts) calls draw(ts) and then
\* requests the next frame; when draw throws the request is never reached.
ShimmerFrame(D) ==
    /\ animationRef /\ ~browser.hidden
    /\ shimmer.cols # 0
    /\ \E gap \in D.gaps :
         /\ now + gap <= MaxShimmerTime * Millisecond
         /\ now' = now + gap
    /\ shimmer' = [shimmer EXCEPT !.frame = shimmerDraw(shimmer, now')]
    /\ IF shimmer'.frame.wall = "thrown"
       THEN /\ animationRef' = FALSE
            /\ browser' = [browser EXCEPT !.pending = @ - 1]
       ELSE UNCHANGED <<animationRef, browser>>
    /\ op' = "shimmer"
    /\ UNCHANGED <<rainVars, sweepVars, isPaused, held, viewer, width, height>>

\* A parameter that draw depends on changes: draw is made anew and the loop
\* effect runs again.
ShimmerSet(vals) ==
    /\ shimmer' = [shimmer EXCEPT !.values = vals, !.frame = NoShimmerFrame]
    /\ LoopEffect(isPaused)
    /\ UNCHANGED <<rainVars, sweepVars, isPaused, held, viewer, width, height, now>>

SetWallSweep(D) ==
    /\ \E ws \in D.wallSweep :
         /\ ws # shimmer.values.wallSweep
         /\ ShimmerSet([shimmer.values EXCEPT !.wallSweep = ws])
    /\ op' = "wallSweep"

SetWallSweepStrength(D) ==
    /\ \E st \in D.wallSweepStrength :
         /\ st # shimmer.values.wallSweepStrength
         /\ ShimmerSet([shimmer.values EXCEPT !.wallSweepStrength = st])
    /\ op' = "wallSweepStrength"

SetBrightness(D) ==
    /\ \E b \in D.brightness :
         /\ b # <<shimmer.values.baseB, shimmer.values.peakB>>
         /\ ShimmerSet([shimmer.values EXCEPT !.baseB = b[1], !.peakB = b[2]])
    /\ op' = "brightness"

NextShimmer ==
    \/ ShimmerFrame(ShimmerDom)
    \/ SetWallSweep(ShimmerDom)
    \/ SetWallSweepStrength(ShimmerDom)
    \/ SetBrightness(ShimmerDom)

SpecShimmer == InitShimmer /\ [][NextShimmer]_vars

\* The cells of the grid, and membership in the active list
Cells == 0..(grid.cols * grid.rows - 1)
Listed(i) == \E j \in 1..Len(grid.active) : grid.active[j] = i
Count(seq, x) == Cardinality({j \in 1..Len(seq) : seq[j] = x})


-----------------------------------------------------------------------------
(* The forms of the fixedText parameter *)

\* Both renderers under every form of the fixedText parameter: arrays
\* (["AB"], [], ["", " "]), legacy strings ("AB", "", "  ") and no text, on
\* rain walls of 2 x 1 and 1 x 2 cells and the sweep walls of FillDom.
TextDom ==
    [geometry |-> {<<32, 16, 16>>, <<16, 32, 16>>},
     fill |-> {<<m, "alphabet", ft>> :
                  m \in {"fixed", "random"},
                  ft \in {TextArray(<<<<65, 66>>>>), TextArray(<<>>),
                          TextArray(<<<<>>, <<32>>>>),
                          LegacyText(<<65, 66>>), LegacyText(<<>>),
                          LegacyText(<<32, 32>>), NoText}},
     streams |-> {<<0>>, <<50>>}]

InitText ==
    \/ \E f \in TextDom.fill :
          InitWith(TextDom, [DefaultValues EXCEPT !.fillMode = f[1], !.script = f[2],
                                                  !.fixedText = f[3]])
    \/ InitFill

NextText ==
    \/ RainMounted /\ SetFill(TextDom)
    \/ RainMounted /\ Resize(TextDom)
    \/ SweepMounted /\ SetFixedText(FillDom)
    \/ SweepMounted /\ SetBgType(FillDom)
    \/ SweepMounted /\ SweepResize(FillDom)

SpecText == InitText /\ [][NextText]_vars

-----------------------------------------------------------------------------
(* Properties of one simulation step *)

\* C1 (trail decay): a step that does not strike an active cell either
\* lowers its trail strictly and keeps it in the active set, or, when the
\* decayed value is below 0.006, removes it from the active set; and every
\* active cell is removed or struck again after finitely many steps, also at
\* the largest decay factors the clamps allow.
C1_Decays(i) ==
    IF grid.trail[i] * DecayFor(grid, i, values) < 6000 * 1000
    THEN /\ grid'.activeFlag[i] = 0
         /\ Count(grid'.active, i) = 0
    ELSE /\ grid'.trail[i] < grid.trail[i]
         /\ grid'.trail[i] > 0
         /\ Count(grid'.active, i) = 1

C1_Active(i) == i \in Cells /\ Listed(i)

C1_Leaves(i) ==
    C1_Active(i) ~> (~C1_Active(i) \/ (op = "step" /\ i \in obs.struck))

C1_TrailDecay ==
    /\ [][op' = "step" =>
            \A i \in Cells :
               (Listed(i) /\ i \notin obs'.struck) => C1_Decays(i)]_vars
    /\ C1_Leaves(0)
    /\ C1_Leaves(1)

\* A step removed a highlighted cell that had decayed at the factor 0.995,
\* with no drop striking any more.
C1_Witness ==
    /\ op = "step"
    /\ decayIn(values) = 995
    /\ decayOut(values) = 980
    /\ obs.struck = {}
    /\ \E i \in DOMAIN obs.mid :
         /\ grid.hitMask[i] # 0
         /\ ~obs.mid[i].listed
         /\ grid.trail[i] = 0

\* C2 (strike): at the end of a step every cell struck in it has a trail
\* value >= the injection strength that applies to it, its trail is the
\* larger of its trail before the strike and that strength, and it occurs in
\* the active list exactly once.
C2_Strike ==
    op = "step" =>
       \A i \in obs.struck :
          /\ grid.trail[i] >= InjFor(grid, i, values)
          /\ grid.trail[i] = Max(obs.pre[i], InjFor(grid, i, values))
          /\ Count(grid.active, i) = 1
          /\ grid.activeFlag[i] = 1

\* A step struck a cell whose trail was above the injection strength that
\* applies to it now: the cell kept its trail.
C2_Witness ==
    /\ op = "step"
    /\ \E i \in obs.struck :
         /\ InjFor(grid, i, values) > 0
         /\ obs.pre[i] > InjFor(grid, i, values)
         /\ grid.trail[i] = obs.pre[i]

\* The rows a drop at position prev with speed spd passes in one step,
\* stated directly: floor(prev) <= r <= floor(prev + spd), inside
\* the grid.
RowsPassed(prev, spd, rows) ==
    {r \in 0..(rows - 1) :
        /\ FloorDiv(prev, PosUnit) <= r
        /\ r <= FloorDiv(prev + spd, PosUnit)}

\* C3 (multi-row strike): a stepSimulation() strikes, in every column c, the
\* cells (r, c) with floor(prev) <= r <= floor(prev + speed) and 0 <= r < rows,
\* and no other cell.
C3_MultiRowStrike ==
    [][op' = "step" =>
         obs'.struck = {r * grid.cols + c :
                          <<r, c>> \in {rc \in (0..(grid.rows - 1)) \X (0..(grid.cols - 1)) :
                                           rc[1] \in RowsPassed(grid.dropPos[rc[2]],
                                                                grid.dropSpd[rc[2]],
                                                                grid.rows)}}]_vars

\* The step that took the drop of a ten-row column from position 9.7 to
\* 10.7 at speed 1.0: it struck row 9 and nothing else.
C3_Witness ==
    /\ op = "step"
    /\ grid.rows = 10
    /\ grid.cols = 1
    /\ grid.dropSpd[0] = PosUnit
    /\ grid.dropPos[0] = 10 * PosUnit + 70
    /\ obs.struck = {9}

\* C4 (removal on decay): when the decay loop of a step brings a cell's
\* trail below the threshold, at the end of the loop its trail is 0 and it is
\* neither flagged nor listed as active; in fixed fill mode its codepoint is
\* then the baseline codepoint, in random fill mode it is the codepoint it had;
\* and in fixed fill mode every cell outside the active set shows its
\* baseline codepoint.
C4_Removed(i) ==
    /\ obs'.mid[i].trail = 0
    /\ obs'.mid[i].flag = 0
    /\ ~obs'.mid[i].listed
    /\ FillMode(values) = "fixed" => obs'.mid[i].char = grid.baseChars[i]
    /\ FillMode(values) = "random" => obs'.mid[i].char = grid.wallChars[i]
    /\ i \notin obs'.struck =>
         /\ grid'.trail[i] = 0
         /\ grid'.activeFlag[i] = 0
         /\ \A j \in 1..Len(grid'.active) : grid'.active[j] # i

C4_RemovalOnDecay ==
    /\ [][op' = "step" =>
            \A i \in DOMAIN obs'.mid :
               grid.trail[i] * DecayFor(grid, i, values) < Threshold * 1000
                  => C4_Removed(i)]_vars
    /\ [](FillMode(values) = "fixed" =>
            \A i \in Cells :
               grid.activeFlag[i] = 0 => grid.wallChars[i] = grid.baseChars[i])

\* A step in fixed fill mode that removed a cell whose codepoint a strike had
\* changed: the cell is inactive again and shows its baseline codepoint.
C4_Witness ==
    /\ op = "step"
    /\ FillMode(values) = "fixed"
    /\ \E i \in DOMAIN obs.mid :
         /\ ~obs.mid[i].listed
         /\ i \notin obs.struck
         /\ grid.dirtyFlag[i] = 1
         /\ grid.wallChars[i] = grid.baseChars[i]

-----------------------------------------------------------------------------
(* Properties of the frame loop *)

\* C5 (step cap): in every frame at most 3 simulation steps execute.
C5_StepCap == steps <= 3

\* A frame that ran 3 steps and ended with a further step still due: the
\* budget left after the loop was at least one step interval.
C5_Witness ==
    /\ op = "render"
    /\ steps = 3
    /\ obs.left >= stepMs(values)

\* C6 (bounded step budget): after every frame 0 <= acc < stepMs, with the
\* stepMs of the rate used in that frame.
C6_BoundedBudget ==
    op = "render" => (0 <= accRef /\ accRef < stepMs(values))

\* A frame that ran a step and kept a remainder of the budget for the next
\* frame.
C6_Witness ==
    /\ op = "render"
    /\ steps >= 1
    /\ 0 < accRef
    /\ accRef < stepMs(values)

\* C9 (dirty marking, as the code has it): every cell whose codepoint was
\* changed by a simulation step is in the dirty set at the end of that step.
C9_DirtyMarking ==
    [][op' = "step" =>
         \A i \in Cells :
            grid'.wallChars[i] # grid.wallChars[i]
               => (grid'.dirtyFlag[i] = 1 /\ Count(grid'.dirtyCells, i) = 1)]_vars

\* C9 as stated: every cell whose codepoint or whose trail value was changed
\* by a simulation step is in the dirty set at the end of that step.
C9_AsStated ==
    [][op' = "step" =>
         \A i \in Cells :
            (grid'.wallChars[i] # grid.wallChars[i] \/ grid'.trail[i] # grid.trail[i])
               => (grid'.dirtyFlag[i] = 1 /\ Count(grid'.dirtyCells, i) = 1)]_vars

\* A step struck two cells, one of them a cell at rest that showed its
\* baseline codepoint, and gave it another codepoint: both are dirty.
C9_Witness ==
    /\ op = "step"
    /\ \E i, j \in obs.struck :
         /\ i # j
         /\ obs.pre[j] = 0
         /\ grid.wallChars[j] # grid.baseChars[j]
         /\ grid.dirtyFlag[i] = 1
         /\ grid.dirtyFlag[j] = 1

\* C10 (dirty flush): a render repaints every cell that is in the dirty set
\* when it starts, and leaves the dirty list empty and every dirty flag 0; in
\* every state a cell index occurs in the dirty list at most once and its flag
\* is 1 exactly when it is in the list.
C10_DirtyFlush ==
    /\ [][op' = "render" =>
            \A j \in 1..Len(grid.dirtyCells) :
               /\ Count(obs'.cells, grid.dirtyCells[j]) >= 1
               /\ wall'[grid.dirtyCells[j]] = grid.wallChars[grid.dirtyCells[j]]]_vars
    /\ [](op = "render" =>
            /\ grid.dirtyCells = <<>>
            /\ \A i \in Cells : grid.dirtyFlag[i] = 0)
    /\ [](\A i \in Cells :
            /\ Count(grid.dirtyCells, i) <= 1
            /\ grid.dirtyFlag[i] = 1 <=> Count(grid.dirtyCells, i) = 1)

\* A render that flushed two dirty cells onto a wall that had been painted
\* before: the wall shows their new codepoints.
C10_Witness ==
    /\ op = "render"
    /\ Len(obs.cells) = 2
    /\ obs.rows = <<>>
    /\ \A i \in Cells : wall[i] = grid.wallChars[i] /\ wall[i] # grid.baseChars[i]

-----------------------------------------------------------------------------
(* Properties of the cached wall's repaint schedule *)

\* The rows lo .. hi - 1 in order
RowRange(lo, hi) == [k \in 1..Max(0, hi - lo) |-> lo + k - 1]

\* C7 (stripe coverage): the cursor satisfies 0 <= cursor < rows in every
\* state; a stripe cycle that starts with the cursor at 0 has painted rows
\* 0 .. cursor - 1 when the cursor stands at cursor, takes at most
\* ceil(rows / stripeRows) stripe repaints, and when the cursor is back at 0
\* exactly that many stripe repaints have painted every row of the wall.
C7_StripeCoverage ==
    /\ 0 <= grid.twRowCursor
    /\ grid.twRowCursor < grid.rows
    /\ stripes.n <= CeilDiv(grid.rows, stripeRows(grid))
    /\ grid.twRowCursor > 0 =>
         /\ stripes.n >= 1
         /\ stripes.painted = 0..(grid.twRowCursor - 1)
    /\ (grid.twRowCursor = 0 /\ stripes.n > 0) =>
         /\ stripes.n = CeilDiv(grid.rows, stripeRows(grid))
         /\ stripes.painted = 0..(grid.rows - 1)

\* On the wall of 4001 rows a cycle of three stripes has ended: the cursor is
\* back at 0.
C7_Witness ==
    /\ op = "render"
    /\ grid.rows = 4001
    /\ grid.twRowCursor = 0
    /\ stripes.n = 3
    /\ obs.rows = RowRange(4000, 4001)

\* C8 (force full repaint): a render that finds the force flag set repaints
\* every row of the wall exactly once, clears the flag and leaves the stripe
\* cursor and the stripe timer alone; a render that finds it clear paints
\* nothing or the stripe at the cursor; and only a grid rebuild or a change
\* of wall brightness or twinkle rate sets the flag.
C8_ForceFullRepaint ==
    /\ [][op' = "render" =>
            /\ ~grid'.forceFullWallPaint
            /\ IF grid.forceFullWallPaint
               THEN /\ obs'.rows = RowRange(0, grid.rows)
                    /\ grid'.twRowCursor = grid.twRowCursor
                    /\ grid'.nextTwinkleAt = grid.nextTwinkleAt
               ELSE \/ obs'.rows = <<>> /\ grid'.twRowCursor = grid.twRowCursor
                    \/ obs'.rows = RowRange(grid.twRowCursor,
                                            Min(grid.rows,
                                                grid.twRowCursor + stripeRows(grid)))]_vars
    /\ [][(grid'.forceFullWallPaint /\ ~grid.forceFullWallPaint)
             => op' \in {"resize", "fill", "mask", "appearance"}]_vars

\* A full repaint in the middle of a stripe cycle: every row was painted, the
\* flag is clear and the cursor still stands inside the wall.
C8_Witness ==
    /\ op = "render"
    /\ ~grid.forceFullWallPaint
    /\ grid.twRowCursor > 0
    /\ obs.rows = RowRange(0, grid.rows)

-----------------------------------------------------------------------------
(* Properties of the highlight mask *)

\* C11 (mask/index consistency): in every state between two handlers there
\* is exactly one index list per column and one mask flag per cell; every
\* listed index is a cell of the grid and stands in the list of its own
\* column (index mod cols); a cell is listed once when its flag is set and
\* not at all when it is clear.
C11_MaskIndexConsistency ==
    /\ DOMAIN grid.hiByCol = 0..(grid.cols - 1)
    /\ DOMAIN grid.hitMask = Cells
    /\ \A c \in DOMAIN grid.hiByCol : \A k \in 1..Len(grid.hiByCol[c]) :
          /\ grid.hiByCol[c][k] \in Cells
          /\ grid.hiByCol[c][k] % grid.cols = c
    /\ \A i \in Cells :
          Count(grid.hiByCol[i % grid.cols], i) = IF grid.hitMask[i] = 1 THEN 1 ELSE 0

\* The highlight text was changed away and back on a wall of two columns:
\* column 0 is highlighted in every row, column 1 in none.
C11_Witness ==
    /\ op = "mask"
    /\ grid.cols = 2
    /\ values.maskText = 2
    /\ \E i \in Cells : grid.hitMask[i] = 1 /\ grid.hiByCol[i % grid.cols] # <<>>
    /\ \E i \in Cells : grid.hitMask[i] = 0

\* The grid fields a change of the highlight text is said to leave alone
KeptFields(g) ==
    [wallChars |-> g.wallChars, baseChars |-> g.baseChars,
     twPhase |-> g.twPhase, twSpeed |-> g.twSpeed,
     trail |-> g.trail, activeFlag |-> g.activeFlag, active |-> g.active,
     dropPos |-> g.dropPos, dropSpd |-> g.dropSpd]

\* C12 (highlight-text change is rasterize-only), as stated: a change of the
\* highlight text alone leaves codepoints, baseline codepoints, twinkle
\* phase and speed, trails, the active set and the drops as they were.
C12_AsStated ==
    [][op' = "mask" => KeptFields(grid') = KeptFields(grid)]_vars

\* The highlight texts and the masks a rasterization may find in the grid:
\* any flags over the present cells, or the empty mask of a grid not built
\* yet.
MaskTexts == {1, 2, 3, 4}
PriorMasks == [Cells -> {0, 1}] \cup {<<>>}

-----------------------------------------------------------------------------
(* Properties of the grid build *)

\* n is the number of cells of size cell needed to cover len, at least one
Covers(n, cell, len) ==
    /\ n >= 1
    /\ n * cell >= len
    /\ n > 1 => (n - 1) * cell < len

\* a is an array of n entries, indexed from 0
HasLength(a, n) == DOMAIN a = 0..(n - 1)

\* C20 (grid geometry and allocation): in every state between two handlers
\* the cell size is the requested one, raised to 8 when smaller (16 when none
\* is given); cols and rows are the least counts, at least 1, that cover the
\* width and the height (20 x 10 for 320 x 160 at 16); every per-cell array
\* has cols*rows >= 1 entries and every per-column array cols entries.
C20_GridGeometry ==
    /\ width > 0 /\ height > 0
    /\ grid.cell = (IF values.cellSize \in {0, Undef} THEN 16
                    ELSE IF values.cellSize < 8 THEN 8 ELSE values.cellSize)
    /\ Covers(grid.cols, grid.cell, width)
    /\ Covers(grid.rows, grid.cell, height)
    /\ (width = 320 /\ height = 160 /\ values.cellSize = 16)
          => (grid.cols = 20 /\ grid.rows = 10)
    /\ grid.cols * grid.rows >= 1
    /\ HasLength(grid.wallChars, grid.cols * grid.rows)
    /\ HasLength(grid.baseChars, grid.cols * grid.rows)
    /\ HasLength(grid.twPhase, grid.cols * grid.rows)
    /\ HasLength(grid.twSpeed, grid.cols * grid.rows)
    /\ HasLength(grid.trail, grid.cols * grid.rows)
    /\ HasLength(grid.activeFlag, grid.cols * grid.rows)
    /\ HasLength(grid.hitMask, grid.cols * grid.rows)
    /\ HasLength(grid.dirtyFlag, grid.cols * grid.rows)
    /\ HasLength(wall, grid.cols * grid.rows)
    /\ HasLength(grid.dropPos, grid.cols)
    /\ HasLength(grid.dropSpd, grid.cols)
    /\ HasLength(grid.hiByCol, grid.cols)

\* A simulation step on the 20 x 10 wall has struck cells
C20_Witness ==
    /\ op = "step"
    /\ width = 320 /\ height = 160
    /\ grid.cols = 20 /\ grid.rows = 10
    /\ Len(grid.active) > 0

-----------------------------------------------------------------------------
(* Properties of the gradient *)

\* The stops in force, and the last evaluation, if one was made
Stops == gradientStops(sweepValues)
Evaluated == gradientEval.u.d # 0

DistinctPositions(stops) ==
    \A i, j \in 1..Len(stops) : i # j => stops[i].p # stops[j].p

\* a and b are neighbours by position among the stops, and u lies between
Neighbours(stops, a, b) ==
    /\ RLt(a.p, b.p)
    /\ \A k \in 1..Len(stops) : ~(RLt(a.p, stops[k].p) /\ RLt(stops[k].p, b.p))
Between(a, u, b) == RLe(a.p, u) /\ RLe(u, b.p)

\* a.value + (b.value - a.value) * (u - a.position) / max(1e-6, b.position - a.position)
Line(a, b, u) ==
    RAdd(a.v, RDiv(RMul(RSub(b.v, a.v), RSub(u, a.p)),
                   RMax(Rat(1, 1000000), RSub(b.p, a.p))))

\* The same stops supplied in another order
Orders(n) == {q \in [1..n -> 1..n] : \A i, j \in 1..n : i # j => q[i] # q[j]}
Reordered(stops, q) == [k \in 1..Len(stops) |-> stops[q[k]]]
OrderFree ==
    \A q \in Orders(Len(Stops)) :
        evalGradient(Reordered(Stops, q), gradientEval.u, FALSE) = gradientEval.out

\* The scenario: stops (0,0), (0.5,1), (1,0) give 0.5 at 0.25, 1 at 0.5 and
\* 0.5 at 0.75.
ScenarioValues ==
    Stops = ScenarioStops =>
        /\ gradientEval.u = Rat(1, 4) => gradientEval.out = Rat(1, 2)
        /\ gradientEval.u = Rat(1, 2) => gradientEval.out = RInt(1)
        /\ gradientEval.u = Rat(3, 4) => gradientEval.out = Rat(1, 2)

IsSorted(stops) ==
    \A i, j \in 1..Len(stops) : i < j => RLe(stops[i].p, stops[j].p)

\* C15 (gradient end stops), amended: for a stop list supplied sorted by
\* position, with lockEnds = false, the value at the first stop's position
\* is the first stop's value; the value at the last stop's position is the
\* last stop's value when that position is greater than the first stop's;
\* a point before the first stop has the first stop's value and a point
\* after the last stop the last stop's value.
C15_EndStops ==
    (Evaluated /\ ~gradientEval.lockEnds /\ Len(Stops) >= 1 /\ IsSorted(Stops))
    => LET first == Stops[1]
           last  == Stops[Len(Stops)]
       IN  /\ gradientEval.u = first.p => gradientEval.out = first.v
           /\ (gradientEval.u = last.p /\ RLt(first.p, last.p))
                 => gradientEval.out = last.v
           /\ RLt(gradientEval.u, first.p) => gradientEval.out = first.v
           /\ RLt(last.p, gradientEval.u) => gradientEval.out = last.v

\* C15 as stated: the value at the last stop's position is the last stop's
\* value for every sorted list.
C15_AsStated ==
    (Evaluated /\ ~gradientEval.lockEnds /\ Len(Stops) >= 1 /\ IsSorted(Stops))
    => LET first == Stops[1]
           last  == Stops[Len(Stops)]
       IN  /\ gradientEval.u = first.p => gradientEval.out = first.v
           /\ gradientEval.u = last.p => gradientEval.out = last.v
           /\ RLt(gradientEval.u, first.p) => gradientEval.out = first.v
           /\ RLt(last.p, gradientEval.u) => gradientEval.out = last.v

\* A sorted list whose stops lie inside (first at 1/2 with a non-zero
\* value), evaluated before its first stop
C15_Witness ==
    /\ op = "eval"
    /\ ~gradientEval.lockEnds
    /\ Len(Stops) >= 2
    /\ IsSorted(Stops)
    /\ RLt(gradientEval.u, Stops[1].p)
    /\ Stops[1].v = RInt(1)
    /\ gradientEval.out = RInt(1)

\* C16 (lock-ends): an evaluation with lockEnds = true at a point u <= 0 or
\* u >= 1 yields exactly 0, for every stop list.
C16_LockEnds ==
    (Evaluated /\ gradientEval.lockEnds
       /\ (RLe(gradientEval.u, RInt(0)) \/ RLe(RInt(1), gradientEval.u)))
    => gradientEval.out = RInt(0)

\* Locked evaluation at u = 1 of a list whose stops at position 1 all have
\* value 1
C16_Witness ==
    /\ op = "eval"
    /\ gradientEval.lockEnds
    /\ gradientEval.u = RInt(1)
    /\ \E k \in 1..Len(Stops) : Stops[k].p = RInt(1)
    /\ \A k \in 1..Len(Stops) : Stops[k].p = RInt(1) => Stops[k].v = RInt(1)
    /\ gradientEval.out = RInt(0)

\* The stops at the point of the last evaluation, by index in the supplied list
StopsAt == {k \in 1..Len(Stops) : Stops[k].p = gradientEval.u}
FirstAt == CHOOSE k \in StopsAt : \A m \in StopsAt : k <= m
LastAt == CHOOSE k \in StopsAt : \A m \in StopsAt : m <= k
AtLargestOnly ==
    /\ \A k \in 1..Len(Stops) : RLe(Stops[k].p, gradientEval.u)
    /\ \E k \in 1..Len(Stops) : RLt(Stops[k].p, gradientEval.u)

-----------------------------------------------------------------------------
(* Properties of the sweep timing *)

Drawn == sweepFrame.ts.d # 0

\* C18 (sweep periodicity): the center a frame computed at timestamp t is the
\* center at timestamp t + periodSeconds * 1000, wave offset, period and
\* half-width being those of the frame.
C18_SweepPeriodicity ==
    Drawn => Center(sweepValues, sweepRefs.waveOffset,
                    RAdd(sweepFrame.ts, RMul(PeriodSec(sweepValues), RInt(1000))))
             = sweepFrame.center

\* A frame in the second cycle of a 0.5 s sweep, in the middle of its travel
C18_Witness ==
    /\ op = "draw"
    /\ Drawn
    /\ PeriodSec(sweepValues) = Rat(1, 2)
    /\ RLe(RInt(500), sweepFrame.ts)
    /\ RLt(RInt(0), sweepFrame.center)
    /\ RLt(sweepFrame.center, RInt(1))

\* C19 (sweep travel range): the center of every frame lies in
\* [-overscan, 1 + overscan] with overscan = halfWidth + 0.1; in the last 4%
\* of a cycle the whole window [center - halfWidth, center + halfWidth] lies
\* beyond position 1 and in the first 4% it lies before position 0, so no
\* column position of [0, 1] is inside it on either side of the wrap.
C19_TravelRange ==
    Drawn =>
        /\ sweepFrame.overscan = RAdd(sweepFrame.halfW, Rat(1, 10))
        /\ RLe(RSub(RInt(0), sweepFrame.overscan), sweepFrame.center)
        /\ RLe(sweepFrame.center, RAdd(RInt(1), sweepFrame.overscan))
        /\ sweepFrame.left = RSub(sweepFrame.center, sweepFrame.halfW)
        /\ sweepFrame.right = RAdd(sweepFrame.center, sweepFrame.halfW)
        /\ RLe(Rat(24, 25), sweepFrame.t) => RLt(RInt(1), sweepFrame.left)
        /\ RLe(sweepFrame.t, Rat(1, 25)) => RLt(sweepFrame.right, RInt(0))
        /\ \A c \in DOMAIN sweepGrid.colNorm :
              (RLe(Rat(24, 25), sweepFrame.t) \/ RLe(sweepFrame.t, Rat(1, 25)))
                 => ~(RLe(sweepFrame.left, sweepGrid.colNorm[c])
                        /\ RLe(sweepGrid.colNorm[c], sweepFrame.right))

\* The wrap between two frames: the frame before was in the last 4% of the
\* cycle, this one is in the first 4%.
C19_Witness ==
    /\ op = "draw"
    /\ Drawn
    /\ sweepFrame.before.d # 0
    /\ RLe(Rat(24, 25), sweepFrame.before)
    /\ RLe(sweepFrame.t, Rat(1, 25))
    /\ RLt(sweepFrame.right, RInt(0))

-----------------------------------------------------------------------------
(* The iframe viewer *)

\* The most value changes the host makes in a run
MaxChanges == 3

\* The parameters of the automa shown: key and live flag (Parameter.live)
Schema ==
    {[key |-> "speed", live |-> TRUE], [key |-> "intensity", live |-> TRUE],
     [key |-> "cellSize", live |-> FALSE]}

\* AutomaViewer after its first render; values counts the objects the host
\* has passed as `values` (0 = automa.defaults)
ViewerMounted ==
    [mounted |-> TRUE, isReady |-> FALSE, initializedRef |-> FALSE, values |-> 0,
     isLive |-> TRUE, changed |-> "", posted |-> <<>>]

\* An init effect that posts whenever the viewer is ready
InitEffectEveryTime(v) ==
    IF v.isReady
    THEN [v EXCEPT !.posted = Append(@, [type |-> "automa:init", values |-> v.values]),
                   !.initializedRef = TRUE]
    ELSE v

\* "Send init message when iframe is ready" (deps: isReady, values)
InitEffect(v) ==
    IF v.isReady /\ ~v.initializedRef
    THEN [v EXCEPT !.posted = Append(@, [type |-> "automa:init", values |-> v.values]),
                   !.initializedRef = TRUE]
    ELSE v

\* "Send updates when values change" (deps: values, isLive, isReady)
UpdateEffect(v) ==
    IF v.isReady /\ v.initializedRef
    THEN [v EXCEPT !.posted =
            Append(@, [type |-> IF v.isLive THEN "automa:update" ELSE "automa:rebuild",
                       values |-> v.values])]
    ELSE v

\* The effects of a render in which isReady or values changed, in the order
\* of their definition
Commit(v) == UpdateEffect(InitEffect(v))

\* handleMessage for { type: "automa:ready" }: setIsReady(true); a viewer
\* that is ready already does not render again.
ReceiveReady ==
    /\ viewer.mounted
    /\ viewer' = IF viewer.isReady THEN viewer
                 ELSE Commit([viewer EXCEPT !.isReady = TRUE])
    /\ op' = "automa:ready"
    /\ UNCHANGED <<rainVars, sweepVars, loopVars, shimmer, width, height, now>>

\* handleMessage for any other message, such as automa:telemetry
ReceiveOther ==
    /\ viewer.mounted
    /\ op' = "automa:telemetry"
    /\ UNCHANGED <<rainVars, sweepVars, loopVars, viewer, shimmer, width, height, now>>

\* A control of parameter p changes: ControlsPanel.handleChange calls
\* handleValuesChange(newValues, p.live), which sets values and isLive; the
\* viewer renders with both.
ChangeValue ==
    /\ viewer.mounted
    /\ viewer.values < MaxChanges
    /\ \E p \in Schema :
         viewer' = Commit([viewer EXCEPT !.values = @ + 1, !.isLive = p.live,
                                         !.changed = p.key])
    /\ op' = "change"
    /\ UNCHANGED <<rainVars, sweepVars, loopVars, shimmer, width, height, now>>

InitViewer ==
    /\ RainUnmounted
    /\ SweepUnmounted
    /\ LoopStarted
    /\ shimmer = NoShimmer
    /\ width = 0
    /\ height = 0
    /\ now = 0
    /\ op = "mount"
    /\ viewer = ViewerMounted

NextViewer ==
    \/ ReceiveReady
    \/ ReceiveOther
    \/ ChangeValue

SpecViewer == InitViewer /\ [][NextViewer]_vars

-----------------------------------------------------------------------------
(* Properties of the fixed-pool fill *)

\* The strings the fixed text is made of: the entries of the array, or the
\* pieces of the legacy string between its commas
SourceStrings(ft) ==
    IF ft.kind = "array" THEN ft.texts
    ELSE IF ft.kind = "string" /\ Trim(ft.texts[1]) # <<>> THEN SplitComma(Trim(ft.texts[1]))
    ELSE <<FallbackText>>

RECURSIVE Concatenation(_)
Concatenation(texts) ==
    IF texts = <<>> THEN <<>> ELSE Head(texts) \o Concatenation(Tail(texts))

\* Row-major and column-major cycling over a pool, cell by cell
CycledRowMajor(g, pool) ==
    \A r \in 0..(g.rows - 1), c \in 0..(g.cols - 1) :
        g.chars[r * g.cols + c] = pool[((r * g.cols + c) % Len(pool)) + 1]
CycledColumnMajor(g, pool) ==
    \A r \in 0..(g.rows - 1), c \in 0..(g.cols - 1) :
        g.chars[r * g.cols + c] = pool[((c * g.rows + r) % Len(pool)) + 1]

Cycled(g, vals, pool) ==
    /\ SweepOrientation(vals) = "horizontal" => CycledRowMajor(g, pool)
    /\ SweepOrientation(vals) = "vertical" => CycledColumnMajor(g, pool)

FixedFill == sweepGrid.cols > 0 /\ sweepValues.bgType = "fixed"

-----------------------------------------------------------------------------
(* Properties of pause and resume *)

\* The arrays of the two grids
GridArrays(g) ==
    <<g.wallChars, g.baseChars, g.twPhase, g.twSpeed, g.hitMask, g.hiByCol,
      g.trail, g.activeFlag, g.active, g.dropPos, g.dropSpd>>
SweepGridArrays(g) == <<g.chars, g.twPhase, g.twSpeed, g.colNorm>>

FrameOps == {"begin", "step", "render", "draw"}

-----------------------------------------------------------------------------
(* Properties of the drops *)

Columns == 0..(grid.cols - 1)

\* The line below which a drop may be reset: rows + 6
ResetLine(g) == (g.rows + 6) * PosUnit

\* What `position += speed` stores for column c (a stored position that has
\* absorbed the speed stays), and a fresh drop
Advanced(c) ==
    /\ grid'.dropPos[c] \in {grid.dropPos[c] + grid.dropSpd[c], grid.dropPos[c]}
    /\ grid'.dropPos[c] = grid.dropPos[c]
         => grid.dropPos[c] + grid.dropSpd[c] > ResetLine(grid) + MaxFall * PosUnit
    /\ grid'.dropSpd[c] = grid.dropSpd[c]
Fresh(g, c) ==
    /\ g.dropPos[c] > 0 - 8 * PosUnit /\ g.dropPos[c] <= 0
    /\ g.dropSpd[c] >= 60 /\ g.dropSpd[c] < 200

\* C23: in a simulation step a drop's position and speed change other than by
\* position += speed only if the step leaves the position above rows + 6, and
\* then the drop is reset to a position in (-8, 0] with a speed in [0.6, 2.0);
\* whenever a step would leave a drop above rows + 6, a step that resets it
\* and a step that leaves it falling are both possible.
C23_DropReset ==
    /\ [][op' = "step" =>
            \A c \in Columns :
                \/ Advanced(c)
                \/ /\ grid.dropPos[c] + grid.dropSpd[c] > ResetLine(grid)
                   /\ Fresh(grid', c)]_vars
    /\ [](\A c \in Columns :
             (/\ grid.dropPos[c] + grid.dropSpd[c] > ResetLine(grid)
              /\ grid.dropPos[c] + grid.dropSpd[c] <= ResetLine(grid) + MaxFall * PosUnit)
             => /\ ENABLED (StepSimulation(DropsDom) /\ grid'.dropPos[c] <= 0)
                /\ ENABLED (StepSimulation(DropsDom) /\ grid'.dropPos[c] > ResetLine(grid)))

\* A step found two drops below the reset line, where the one had already
\* been a step before, and reset the other only
C23_Witness ==
    /\ op = "step"
    /\ grid.cols = 2
    /\ \E c, d \in Columns :
         /\ Fresh(grid, c) /\ grid.dropPos[c] < 0
         /\ grid.dropPos[d] - grid.dropSpd[d] > ResetLine(grid)
         /\ grid.dropPos[d] - 2 * grid.dropSpd[d] > ResetLine(grid)

BuildOps == {"mount", "resize", "fill", "mask"}

\* C24 (as amended): a drop that is reset is put above the first row
\* (position <= 0); a drop created at a grid build is put at a position in
\* [0, rows), which is inside the visible rows unless it is 0.
C24_DropSpawn ==
    /\ [][op' = "step" =>
            \A c \in Columns : ~Advanced(c) => grid'.dropPos[c] <= 0]_vars
    /\ [](op \in BuildOps =>
            \A c \in Columns :
                grid.dropPos[c] >= 0 /\ grid.dropPos[c] < grid.rows * PosUnit)

\* C24 as stated: a drop is above the first row when it has just been created
\* by a grid build or re-created by a reset.
C24_AsStated ==
    /\ [][op' = "step" =>
            \A c \in Columns : ~Advanced(c) => grid'.dropPos[c] <= 0]_vars
    /\ [](op \in BuildOps => \A c \in Columns : grid.dropPos[c] <= 0)

\* A resize has built the grid again and a drop of it starts inside the rows
C24_Witness ==
    /\ op = "resize"
    /\ \E c \in Columns : grid.dropPos[c] > 0 /\ grid.dropPos[c] < grid.rows * PosUnit

-----------------------------------------------------------------------------
(* Properties of the trail values *)

\* C25: after any sequence of grid builds, simulation steps and parameter
\* changes, with injection strengths and decay rates in or out of their
\* nominal ranges, every cell's trail value lies in [0, 1].
C25_TrailRange ==
    \A i \in DOMAIN grid.trail : grid.trail[i] >= 0 /\ grid.trail[i] <= TrailOne

\* Under a requested decay factor of 2.0 a step has decayed a trail that a
\* requested strength of 2.0 had put at 1.0, striking nothing
C25_Witness ==
    /\ op = "step"
    /\ values.outsideDecay > 1000
    /\ obs.struck = {}
    /\ \E i \in DOMAIN grid.trail :
         /\ i \in DOMAIN obs.mid
         /\ grid.trail[i] > 900000 /\ grid.trail[i] < TrailOne

-----------------------------------------------------------------------------
(* Properties of the gradient parameter *)

\* The built-in profile at the probes: 0, 0.1, 0.8, 0.1, 0 at 0, 0.15, 0.5,
\* 0.85, 1
DefaultProfile(u) ==
    CASE u = Rat(1, 4) -> Rat(3, 10)
      [] u = Rat(1, 2) -> Rat(4, 5)
      [] u = Rat(3, 4) -> Rat(3, 10)
      [] OTHER -> RInt(0)

NonNumeric(param) ==
    /\ param.kind = "array"
    /\ \E k \in 1..Len(param.stops) :
          param.stops[k].p = NoNumber \/ param.stops[k].v = NoNumber

\* The stops of an array with every field that is no number taken as 0
Zeroed(stops) ==
    [k \in 1..Len(stops) |->
        [p |-> IF stops[k].p = NoNumber THEN RInt(0) ELSE stops[k].p,
         v |-> IF stops[k].v = NoNumber THEN RInt(0) ELSE stops[k].v]]

\* C26 (as amended): when the gradient parameter is not a parseable JSON array
\* the sweep is evaluated with the built-in default stops; when it is an array
\* with a stop whose position or value is non-numeric, that field is taken as
\* 0 and the array is used; the evaluation never fails.
C26_MalformedGradient ==
    Evaluated =>
        /\ gradientEval.out # NoNumber
        /\ sweepValues.gradientStops.kind # "array"
             => gradientEval.out =
                    IF gradientEval.lockEnds
                       /\ (RLe(gradientEval.u, RInt(0)) \/ RLe(RInt(1), gradientEval.u))
                    THEN RInt(0) ELSE DefaultProfile(gradientEval.u)
        /\ NonNumeric(sweepValues.gradientStops)
             => gradientEval.out =
                    evalGradient(gradientStops([gradientStops |->
                                     AsParameter(Zeroed(sweepValues.gradientStops.stops))]),
                                 gradientEval.u, gradientEval.lockEnds)

\* C26 as stated: an array with a non-numeric stop field, too, is evaluated
\* with the built-in default stops.
C26_AsStated ==
    (Evaluated /\ NonNumeric(sweepValues.gradientStops))
        => gradientEval.out =
               IF gradientEval.lockEnds
                  /\ (RLe(gradientEval.u, RInt(0)) \/ RLe(RInt(1), gradientEval.u))
               THEN RInt(0) ELSE DefaultProfile(gradientEval.u)

\* The middle of the sweep evaluated under an array whose null element makes
\* the parse throw: the default profile's 0.8
C26_Witness ==
    /\ Evaluated
    /\ sweepValues.gradientStops = WithNullStop
    /\ gradientEval.u = Rat(1, 2)
    /\ gradientEval.out = Rat(4, 5)

-----------------------------------------------------------------------------
(* Properties of the fixedText parameter *)

\* The fixedText inputs that hold no character: missing, "", all whitespace,
\* [], and arrays of empty or whitespace strings
Blank(ft) ==
    \A k \in 1..Len(ft.texts) : Trim(ft.texts[k]) = <<>>

\* C27: for every fixed-text input, the blank ones included, the fixed
\* character pool built from it has at least one entry, and every cell of a
\* built wall holds a defined codepoint.
C27_AsStated ==
    /\ RainMounted =>
          /\ Len(grid.fixedPool) >= 1
          /\ \A i \in DOMAIN grid.wallChars : grid.wallChars[i] # 0
    /\ SweepMounted =>
          /\ Len(sweepBuildFixedPool(SweepFixedText(sweepValues))) >= 1
          /\ \A i \in DOMAIN sweepGrid.chars : sweepGrid.chars[i] # 0

\* The characters of the strings of a fixedText value
CharsOf(ft) == {ft.texts[k][j] : <<k, j>> \in {x \in (1..Len(ft.texts)) \X (1..3) :
                                                x[2] <= Len(ft.texts[x[1]])}}

\* C29: in the rain and the sweep renderer alike, a grid build whose
\* fixedText is an array of strings, or a legacy string, completes without
\* error and fills the cells of a fixed-mode wall from the characters of
\* those strings.
C29_AsStated ==
    /\ (RainMounted /\ values.fixedText.kind \in {"array", "string"}) =>
          /\ pc # "crashed"
          /\ (FillMode(values) = "fixed" /\ ~Blank(values.fixedText)) =>
                \A i \in DOMAIN grid.wallChars :
                    grid.wallChars[i] \in CharsOf(values.fixedText)
    /\ (SweepMounted /\ sweepValues.fixedText \in {TextArray(<<<<65, 66>>>>),
                                                   LegacyText(<<65, 66>>)}) =>
          (SweepMode(sweepValues) = "fixed" =>
                \A i \in DOMAIN sweepGrid.chars :
                    sweepGrid.chars[i] \in CharsOf(sweepValues.fixedText))

-----------------------------------------------------------------------------
(* Properties of degenerate stop lists *)

\* C28: with an empty stop list the evaluation is 0 for every u and both
\* lockEnds settings; with exactly one stop it is that stop's value for every
\* u, except that lockEnds forces 0 at u <= 0 and at u >= 1.
C28_DegenerateStops ==
    Evaluated =>
        /\ Len(Stops) = 0 => gradientEval.out = RInt(0)
        /\ Len(Stops) = 1 =>
              gradientEval.out =
                  IF gradientEval.lockEnds
                     /\ (RLe(gradientEval.u, RInt(0)) \/ RLe(RInt(1), gradientEval.u))
                  THEN RInt(0) ELSE Stops[1].v

\* A single stop of value 0.5 at 0.5 evaluated beyond the far end without the
\* lock
C28_Witness ==
    /\ Evaluated
    /\ sweepValues.gradientStops = AsParameter(<<[p |-> Rat(1, 2), v |-> Rat(1, 2)]>>)
    /\ gradientEval.u = Rat(5, 4)
    /\ ~gradientEval.lockEnds
    /\ gradientEval.out = Rat(1, 2)

-----------------------------------------------------------------------------
(* Properties of the viewer's messages *)

Posted(type) == {i \in 1..Len(viewer.posted) : viewer.posted[i].type = type}

Live(key) == (CHOOSE p \in Schema : p.key = key).live

\* C30: the viewer posts nothing before it has received automa:ready; it
\* posts automa:init once and never again; every automa:update and
\* automa:rebuild comes after the automa:init; and a value change is posted as
\* automa:update when the changed parameter is live, as automa:rebuild
\* otherwise.
C30_ViewerProtocol ==
    /\ [][(viewer.posted' # viewer.posted)
            => (op' = "automa:ready" \/ Posted("automa:init") # {})]_vars
    /\ [](/\ ~viewer.isReady => viewer.posted = <<>>
          /\ Cardinality(Posted("automa:init")) <= 1
          /\ viewer.isReady => Cardinality(Posted("automa:init")) = 1
          /\ \A i \in Posted("automa:update") \cup Posted("automa:rebuild") :
                \E j \in Posted("automa:init") : j < i)
    /\ [][(op' = "change" /\ viewer.posted' # viewer.posted)
            => /\ Len(viewer.posted') = Len(viewer.posted) + 1
               /\ viewer.posted'[Len(viewer.posted')] =
                     [type |-> IF Live(viewer.changed') THEN "automa:update"
                               ELSE "automa:rebuild",
                      values |-> viewer.values']]_vars
    /\ [][(op' = "change" /\ Posted("automa:init") # {})
            => viewer.posted' # viewer.posted]_vars

\* Ready after one change, then a change of cellSize: init, the message that
\* follows it, and a rebuild
C30_Witness ==
    /\ Len(viewer.posted) = 3
    /\ viewer.posted[1] = [type |-> "automa:init", values |-> 1]
    /\ viewer.posted[3] = [type |-> "automa:rebuild", values |-> 2]
    /\ viewer.changed = "cellSize"

-----------------------------------------------------------------------------
(* Properties of the affected column range *)

\* The alpha the sweep pass computes for column c under the window of the
\* last frame, whether or not c is in the affected range
ColumnAlpha(c) ==
    LET wallBase == RClamp(ROrDefault(sweepValues.wallBase, Rat(8, 100)), RInt(0), Rat(1, 4))
        wallPeak == RClamp(ROrDefault(sweepValues.wallPeak, Rat(65, 100)), RInt(0), RInt(1))
        boostMax == RMax(RInt(0), RSub(wallPeak, wallBase))
        u == RDiv(RSub(sweepGrid.colNorm[c], sweepFrame.left),
                  RMax(Epsilon, RMul(RInt(2), sweepFrame.halfW)))
    IN  RMul(boostMax, RClamp(evalGradient(Stops, u, LockEnds(sweepValues)),
                              RInt(0), RInt(1)))

FrameDrawn == sweepFrame.ts # NoNumber

\* C31: iterating only the columns lo..hi draws what iterating all columns
\* would: every column outside lo..hi has a sweep alpha of at most 0.0005,
\* and every column inside gets the alpha of the full iteration.
C31_AsStated ==
    FrameDrawn =>
        \A c \in 0..(sweepGrid.cols - 1) :
            IF c \in sweepFrame.lo..sweepFrame.hi
            THEN sweepFrame.alpha[c] = ColumnAlpha(c)
            ELSE RLe(ColumnAlpha(c), Rat(5, 10000))

-----------------------------------------------------------------------------
(* Properties of the step budget *)

\* C32: a frame drops accumulated time only when a due step could not run
\* because of the cap: whenever less than one step interval remains in the
\* budget after the steps of a frame, also of a frame with exactly three
\* steps, the frame carries that remainder unchanged into the next frame.
C32_AsStated ==
    [][(op' = "render" /\ accRef < stepMs(values)) => accRef' = accRef]_vars

-----------------------------------------------------------------------------
(* Properties of the cached wall *)

\* C33: after every render the glyph the cached wall holds for a cell is the
\* cell's current codepoint, whatever rebuilds, steps, stripe repaints and
\* forced full repaints came before.
C33_WallCoherence ==
    op = "render" =>
        /\ DOMAIN wall = DOMAIN grid.wallChars
        /\ \A i \in DOMAIN wall : wall[i] = grid.wallChars[i]

\* A render after which the wall shows a codepoint that a strike put in
\* place of the cell's base codepoint
C33_Witness ==
    /\ op = "render"
    /\ \E i \in DOMAIN wall :
          /\ grid.wallChars[i] # grid.baseChars[i]
          /\ wall[i] = grid.wallChars[i]

-----------------------------------------------------------------------------
(* Properties of the active set *)

\* C34: after any sequence of grid builds and simulation steps a cell's
\* active flag is 1 exactly if its index is in the active list, no index is
\* in the list twice, and every cell outside the active set has trail 0.
C34_ActiveSet ==
    /\ \A i \in DOMAIN grid.activeFlag :
          /\ grid.activeFlag[i] = 1 <=> \E k \in 1..Len(grid.active) : grid.active[k] = i
          /\ grid.activeFlag[i] \in {0, 1}
          /\ grid.activeFlag[i] = 0 => grid.trail[i] = 0
    /\ \A k, m \in 1..Len(grid.active) : grid.active[k] = grid.active[m] => k = m
    /\ \A k \in 1..Len(grid.active) : grid.active[k] \in DOMAIN grid.activeFlag

\* After a step, two cells in the active list with a trail and a cell
\* outside it that still shows the codepoint of an earlier strike
C34_Witness ==
    /\ op = "step"
    /\ Len(grid.active) >= 2
    /\ \A k \in 1..Len(grid.active) : grid.trail[grid.active[k]] > 0
    /\ \E i \in DOMAIN grid.activeFlag :
          grid.activeFlag[i] = 0 /\ grid.wallChars[i] # grid.baseChars[i]

-----------------------------------------------------------------------------
(* Properties of the decay loop *)

\* A trail after one multiplication by the decay factor dec: 0 when the
\* product is below the removal threshold
DecayedOnce(t, dec) ==
    IF t * dec < Threshold * 1000 THEN 0 ELSE StoreTrail(t * dec)

WasActive == {grid.active[j] : j \in 1..Len(grid.active)}

\* C35: in one simulation step every cell that is in the active set when the
\* step begins has its trail multiplied by its decay factor exactly once, and
\* a cell struck later in the step is not decayed after the strike.
C35_DecayOnce ==
    [][op' = "step" =>
         /\ DOMAIN obs'.mid = WasActive
         /\ \A i \in WasActive :
               obs'.mid[i].trail = DecayedOnce(grid.trail[i], DecayFor(grid, i, values))
         /\ \A i \in DOMAIN grid.trail :
               LET mid == IF i \in WasActive THEN obs'.mid[i].trail ELSE grid.trail[i]
               IN  grid'.trail[i] =
                      IF i \in obs'.struck /\ InjFor(grid, i, values) > mid
                      THEN InjFor(grid, i, values) ELSE mid]_vars

\* A step that began with three active cells, removed one of them and
\* decayed the other two, and struck a cell
C35_Witness ==
    /\ op = "step"
    /\ Cardinality(DOMAIN obs.mid) = 3
    /\ \E i \in DOMAIN obs.mid : ~obs.mid[i].listed
    /\ Cardinality({i \in DOMAIN obs.mid : obs.mid[i].listed /\ obs.mid[i].trail > 0}) = 2
    /\ obs.struck # {}

-----------------------------------------------------------------------------
(* Properties of the frame loop *)

\* The loop is meant to run and the clock has not stopped
Running == ~isPaused /\ ~browser.hidden /\ now < LastTime

Rendered == op \in {"render", "draw"}

\* C36: whenever the renderer is not paused and the document is visible a
\* frame is eventually rendered; in particular after the document was hidden
\* and is visible again.
C36_AsStated ==
    /\ [](Running => <>(Rendered \/ ~Running))
    /\ (op = "show" /\ Running) ~> (Rendered \/ ~Running)

\* C37: at most one frame callback is pending at any time, and it is the one
\* that animationRef names; a restart of the loop leaves exactly one.
C37_SingleLoop ==
    /\ browser.pending = IF animationRef THEN 1 ELSE 0
    /\ op \in {"resume", "appearance", "stops"} /\ ~isPaused => browser.pending = 1

\* The loop was restarted by a parameter change while a frame was pending
C37_Witness ==
    /\ op \in {"appearance", "stops"}
    /\ ~isPaused /\ ~browser.hidden
    /\ now > 0
    /\ browser.pending = 1

-----------------------------------------------------------------------------
(* Properties of the copy of the base wall *)

\* The copy was painted in the frame that has just been drawn
Repainted == op = "draw" /\ sweepRefs.bgCanvas.ts = now

\* C38: a frame repaints the copy of the base wall if and only if it is marked
\* dirty or 1000/12 ms have passed since the last repaint; the repaint clears
\* the mark; a grid rebuild and a change of the wall brightness set it, so the
\* copy a frame puts on the screen shows the current grid at the current
\* brightness.
C38_BaseWallRefresh ==
    /\ [][op' = "draw" =>
            LET due == sweepRefs.bgDirtyRef \/ now' - sweepRefs.lastBgTsRef >= BgInterval
            IN  /\ Repainted' <=> due
                /\ due => ~sweepRefs'.bgDirtyRef /\ sweepRefs'.lastBgTsRef = now'
                /\ ~due => sweepRefs' = sweepRefs]_vars
    /\ [][(op' = "wallBase" \/ (op' = "resize" /\ width' # 0 /\ height' # 0))
            => sweepRefs'.bgDirtyRef]_vars
    /\ [](op = "draw" =>
            /\ sweepRefs.bgCanvas.wallBase =
                  RClamp(ROrDefault(sweepValues.wallBase, Rat(8, 100)), RInt(0), Rat(1, 4))
            /\ sweepRefs.bgCanvas.cols = sweepGrid.cols
            /\ sweepRefs.bgCanvas.rows = sweepGrid.rows)

\* The first frame, 50 ms after the mount and so inside the interval counted
\* from lastBgTsRef = 0, repainted the copy because of the mark, at the
\* brightness the host had set in between
C38_Witness ==
    /\ Repainted
    /\ now = 50 * Millisecond
    /\ now < BgInterval
    /\ sweepRefs.bgCanvas.wallBase = Rat(2, 10)

-----------------------------------------------------------------------------
(* Properties of the auto-fit *)

\* C39 as stated: for every text and grid the loop ends after at most 7
\* rescales with a size at which the block needs a scale of at least 0.995.
C39_AsStated ==
    op = "fit" =>
       /\ obs.fit.out.iterations <= 7
       /\ RLe(FitEnough, obs.fit.out.scale)

\* C39 as amended: the loop ends after at most 7 rescales with a size of at
\* least 4, and when it ends after fewer than 7 rescales the block needs a
\* scale of at least 0.995 at the size it leaves.
C39_AutoFit ==
    op = "fit" =>
       /\ obs.fit.out.iterations <= 7
       /\ RLe(RInt(4), obs.fit.out.size)
       /\ obs.fit.out.iterations < 7 => RLe(FitEnough, obs.fit.out.scale)

\* A text that was rescaled more than once and fits
C39_Witness ==
    /\ op = "fit"
    /\ obs.fit.out.iterations \in 2..6
    /\ RLe(FitEnough, obs.fit.out.scale)

-----------------------------------------------------------------------------
(* Properties of the wall sweep of the shimmer *)

\* C40: with the wall-sweep option enabled every frame completes all of its
\* passes and schedules the next frame.
C40_AsStated ==
    (op = "shimmer" /\ shimmer.values.wallSweep = "on") =>
       /\ Completed(shimmer)
       /\ animationRef
       /\ browser.pending = 1

====
